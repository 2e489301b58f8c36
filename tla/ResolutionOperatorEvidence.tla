--------------------- MODULE ResolutionOperatorEvidence ---------------------
(***************************************************************************)
(* What the ledger says of Azure is so: proofs about ResolutionOperator    *)
(* for any number of cases, operators and jobs.                            *)
(*                                                                         *)
(* No process ever reads Azure and the ledger in one step, so none of the  *)
(* properties is inductive.  The invariant says what a piece of evidence   *)
(* is worth however old it is: its jobs and points are those of an earlier *)
(* time, its points of a later time than its jobs (Past), and an answered  *)
(* attempt is about the job that the very call started (Genuine).  Both    *)
(* survive every later history of Azure (Later), so they stay with the     *)
(* rows of the ledger and with what each process holds.                    *)
(***************************************************************************)
EXTENDS ResolutionOperatorProofs

\* Azure's record: starts and creations are stamped in their order and are of
\* the past, and exactly the completed jobs have points.
AzureRecord ==
    /\ \A i \in DOMAIN jobs : jobs[i].started <= Clock
    /\ \A i, j \in DOMAIN jobs : i < j => jobs[i].started < jobs[j].started
    /\ \A pt \in DOMAIN points : points[pt].job \in DOMAIN jobs
                                 /\ jobs[points[pt].job].status = "Completed"
    /\ \A j \in DOMAIN jobs : jobs[j].status = "Completed" =>
         \E pt \in DOMAIN points : points[pt].job = j

\* What two histories of jobs js and points ps have in common when the second
\* is later: starts and completions stand, points stay, and a point that came
\* in between is newer than every job that was there.
Later(js, ps, js2, ps2) ==
    /\ Len(js) <= Len(js2) /\ Len(ps) <= Len(ps2)
    /\ \A i \in DOMAIN js : /\ js2[i].started = js[i].started
                            /\ js[i].status = "Completed" => js2[i].status = "Completed"
    /\ \A pt \in DOMAIN ps : ps2[pt] = ps[pt]
    /\ \A pt \in DOMAIN ps2 : pt \notin DOMAIN ps =>
         \A i \in DOMAIN js : js[i].started <= ps2[pt].created

\* The jobs of some earlier time.
JobsRead(listed, js) ==
    /\ Len(listed) <= Len(js)
    /\ \A i \in DOMAIN listed : /\ js[i].started = listed[i].started
                                /\ listed[i].status = "Completed" => js[i].status = "Completed"

HavePoints(listed, ps) ==
    \A i \in DOMAIN listed : listed[i].status = "Completed" =>
        \E pt \in DOMAIN ps : ps[pt].job = i

\* Evidence of some earlier time.  Its points were read after its jobs, so
\* they hold the point of each job that it lists as completed.
Past(s, js, ps) ==
    /\ JobsRead(s.jobs, js) /\ HavePoints(s.jobs, s.points)
    /\ Len(s.points) <= Len(ps)
    /\ \A pt \in DOMAIN s.points : ps[pt] = s.points[pt]

Answered(a) == a.accepted /\ a.job # NoJob

\* An answered attempt is about the job that this very call started: it is not
\* in the evidence the attempt was planned from, nor are its points.
Genuine(a, js, ps) ==
    /\ Past(a.plan, js, ps) /\ Candidate(a.plan)
    /\ Answered(a) =>
         /\ a.job \in DOMAIN js /\ a.job \notin DOMAIN a.plan.jobs
         /\ a.started <= js[a.job].started
         /\ \A pt \in DOMAIN ps : ps[pt].job = a.job =>
              pt \notin DOMAIN a.plan.points /\ a.started <= ps[pt].created

Awaited == {"awaiting_result", "verified"}

\* A row says of Azure what is so.
RowTrue(row, scope, js, ps) ==
    /\ row.state = "received" => row.snapshot = None
    /\ row.state # "received" => Past(row.snapshot, js, ps)
    /\ row.state = "diagnosed" => Candidate(row.snapshot)
    /\ row.state \in {"received", "diagnosed"} => row.attempt = None
    /\ row.attempt # None => /\ Genuine(row.attempt, js, ps)
                             /\ row.attempt.plan = row.snapshot /\ row.attempt.scope = scope
    /\ row.state \in Awaited <=> row.attempt # None /\ Answered(row.attempt)
    /\ row.state = "verified" => /\ row.after # None /\ Past(row.after, js, ps)
                                 /\ VerifiedBackup(row.snapshot, row.after, row.attempt)

\* So does what a process holds.
HeldTrue(q, js, ps) ==
    /\ q.pc = "jobs" => JobsRead(q.jobs, js) /\ HavePoints(q.jobs, ps)
    /\ q.pc = "collected" => Past(q.snap, js, ps)
    /\ q.pc \in {"invoked", "recorded"} => Genuine(q.attempt, js, ps)

\* A call is made for a case whose diagnosis is a candidate: a retry looked
\* when it committed its intent, a standalone retry when it started.
Minded(q) == q.pc = "cleared" \/ (q.pc # "idle" /\ q.cmd = "standalone")

ClearedForCause ==
    \A p \in Procs : Minded(proc[p]) => Candidate(cases[proc[p].case].snapshot)

EvidenceInv ==
    /\ AzureRecord
    /\ \A c \in Cases : RowTrue(cases[c], ScopeOf[c], jobs, points)
    /\ \A p \in Procs : HeldTrue(proc[p], jobs, points)
    /\ ClearedForCause

-----------------------------------------------------------------------------
\* What was so of a history is so of every later one.
LEMMA JobsStay ==
    ASSUME NEW js \in Seq(Job), NEW ps \in Seq(Point), NEW js2 \in Seq(Job), NEW ps2 \in Seq(Point),
           Later(js, ps, js2, ps2), NEW listed \in Seq(Job)
    PROVE  /\ JobsRead(listed, js) => JobsRead(listed, js2)
           /\ HavePoints(listed, ps) => HavePoints(listed, ps2)
<1>1. JobsRead(listed, js) => JobsRead(listed, js2)
  BY DEF Later, JobsRead
<1>2. HavePoints(listed, ps) => HavePoints(listed, ps2)
  BY DEF Later, HavePoints
<1> QED
  BY <1>1, <1>2

\* Evidence of some time is evidence of that time ever after.
LEMMA PastStays ==
    ASSUME NEW js \in Seq(Job), NEW ps \in Seq(Point), NEW js2 \in Seq(Job), NEW ps2 \in Seq(Point),
           Later(js, ps, js2, ps2), NEW s \in Snapshot, Past(s, js, ps)
    PROVE  Past(s, js2, ps2)
<1>1. s.jobs \in Seq(Job) /\ s.points \in Seq(Point)
  BY DEF Snapshot
<1>2. JobsRead(s.jobs, js2) /\ HavePoints(s.jobs, s.points)
  BY <1>1, JobsStay DEF Past
<1>3. Len(s.points) <= Len(ps2) /\ \A pt \in DOMAIN s.points : ps2[pt] = s.points[pt]
  BY <1>1 DEF Later, Past
<1> QED
  BY <1>2, <1>3 DEF Past

\* A job's points are all newer than the call that started it, also those
\* that come later.
LEMMA GenuineStays ==
    ASSUME NEW js \in Seq(Job), NEW ps \in Seq(Point), NEW js2 \in Seq(Job), NEW ps2 \in Seq(Point),
           Later(js, ps, js2, ps2), NEW a \in Attempt, Genuine(a, js, ps)
    PROVE  Genuine(a, js2, ps2)
<1>1. a.plan \in Snapshot /\ a.started \in Nat
  BY DEF Attempt
<1>2. Past(a.plan, js2, ps2) /\ Candidate(a.plan)
  BY <1>1, PastStays DEF Genuine
<1>3. ASSUME Answered(a)
      PROVE  /\ a.job \in DOMAIN js2 /\ a.job \notin DOMAIN a.plan.jobs
             /\ a.started <= js2[a.job].started
             /\ \A pt \in DOMAIN ps2 : ps2[pt].job = a.job =>
                  pt \notin DOMAIN a.plan.points /\ a.started <= ps2[pt].created
  <2>1. /\ a.job \in DOMAIN js /\ a.job \notin DOMAIN a.plan.jobs
        /\ a.started <= js[a.job].started
        /\ \A pt \in DOMAIN ps : ps[pt].job = a.job =>
             pt \notin DOMAIN a.plan.points /\ a.started <= ps[pt].created
    BY <1>3 DEF Genuine
  <2>2. a.job \in DOMAIN js2 /\ js2[a.job].started = js[a.job].started
    BY <2>1 DEF Later
  <2>3. ASSUME NEW pt \in DOMAIN ps2, ps2[pt].job = a.job
        PROVE  pt \notin DOMAIN a.plan.points /\ a.started <= ps2[pt].created
    <3>1. CASE pt \in DOMAIN ps
      BY <2>1, <2>3, <3>1 DEF Later
    <3>2. CASE pt \notin DOMAIN ps
      <4>1. pt \notin DOMAIN a.plan.points
        <5>1. a.plan.points \in Seq(Point) /\ Len(a.plan.points) <= Len(ps)
          BY <1>1 DEF Genuine, Past, Snapshot
        <5> QED
          BY <3>2, <5>1
      <4>2. js[a.job].started <= ps2[pt].created
        BY <2>1, <3>2 DEF Later
      <4>3. js[a.job].started \in Nat /\ ps2[pt].created \in Nat
        <5>1. js[a.job] \in Job /\ ps2[pt] \in Point
          BY <2>1
        <5> QED
          BY <5>1 DEF Job, Point
      <4> QED
        BY <1>1, <2>1, <4>1, <4>2, <4>3
    <3> QED
      BY <3>1, <3>2
  <2> QED
    BY <2>1, <2>2, <2>3
<1> QED
  BY <1>2, <1>3 DEF Genuine

\* What a row says of Azure stays so.
LEMMA RowStays ==
    ASSUME NEW js \in Seq(Job), NEW ps \in Seq(Point), NEW js2 \in Seq(Job), NEW ps2 \in Seq(Point),
           Later(js, ps, js2, ps2), NEW row \in Case, NEW scope,
           row.state # "received" => row.snapshot \in Snapshot,
           RowTrue(row, scope, js, ps)
    PROVE  RowTrue(row, scope, js2, ps2)
<1>1. row.attempt # None => row.attempt \in Attempt
  BY DEF Case
<1>2. row.attempt # None => Genuine(row.attempt, js2, ps2)
  BY <1>1, GenuineStays DEF RowTrue
<1>3. row.state # "received" => Past(row.snapshot, js2, ps2)
  BY PastStays DEF RowTrue
<1>4. row.state = "verified" => Past(row.after, js2, ps2)
  BY PastStays DEF RowTrue, Case
<1> QED
  BY <1>2, <1>3, <1>4 DEF RowTrue

\* What a process holds of Azure stays so.
LEMMA HeldStays ==
    ASSUME NEW js \in Seq(Job), NEW ps \in Seq(Point), NEW js2 \in Seq(Job), NEW ps2 \in Seq(Point),
           Later(js, ps, js2, ps2), NEW q \in Process, HeldTrue(q, js, ps)
    PROVE  HeldTrue(q, js2, ps2)
BY ProcessFields, JobsStay, PastStays, GenuineStays DEF HeldTrue

\* Azure's own history: whoever starts a job, and however it ends.
LEMMA HistoryGrows ==
    ASSUME TypeOK, AzureRecord, [Next]_vars
    PROVE  AzureRecord' /\ Later(jobs, points, jobs', points')
<1> DEFINE n == Len(jobs)
           k == Len(points)
<1>1. /\ jobs \in Seq(Job) /\ points \in Seq(Point) /\ n \in Nat /\ k \in Nat
      /\ DOMAIN jobs = 1..n /\ DOMAIN points = 1..k /\ Clock = n + k
  BY DEF TypeOK, Clock
<1>2. /\ \A i \in 1..n : jobs[i] \in Job /\ jobs[i].started \in Nat
      /\ \A pt \in 1..k : points[pt] \in Point /\ points[pt].created \in Nat
  <2>1. /\ \A i \in 1..n : jobs[i] \in Job
        /\ \A pt \in 1..k : points[pt] \in Point
    BY <1>1
  <2> QED
    BY <2>1 DEF Job, Point
<1>3. CASE UNCHANGED <<jobs, points>>
  BY <1>2, <1>3 DEF AzureRecord, Later, Clock
<1>4. CASE jobs' = Started /\ points' = points
  <2> DEFINE new == [status |-> "InProgress", started |-> Clock + 1]
  <2>1. new \in Job
    BY <1>1 DEF Job, JobStates
  <2>2. /\ Len(jobs') = n + 1 /\ DOMAIN jobs' = 1..(n + 1)
        /\ \A i \in 1..n : jobs'[i] = jobs[i]
        /\ jobs'[n + 1].status = "InProgress" /\ jobs'[n + 1].started = n + k + 1
        /\ Clock' = n + k + 1
    BY <1>1, <1>4, <2>1 DEF Started, Clock
  <2>3. Later(jobs, points, jobs', points')
    BY <1>1, <1>2, <1>4, <2>2 DEF Later
  <2>4. \A i \in 1..(n + 1) : i \in 1..n \/ i = n + 1
    BY <1>1
  <2>5. AzureRecord'
    <3>0. \A i \in 1..n : jobs[i].started <= n + k
      BY <1>1 DEF AzureRecord
    <3>1. \A i \in 1..(n + 1) : jobs'[i].started <= n + k + 1
      BY <1>1, <1>2, <2>2, <2>4, <3>0
    <3>2. ASSUME NEW a \in 1..(n + 1), NEW b \in 1..(n + 1), a < b
          PROVE  jobs'[a].started < jobs'[b].started
      <4>1. a \in 1..n /\ jobs'[a] = jobs[a] /\ jobs[a].started <= n + k
        BY <1>1, <2>2, <3>2 DEF AzureRecord
      <4>2. CASE b \in 1..n
        BY <1>1, <2>2, <3>2, <4>1, <4>2 DEF AzureRecord
      <4>3. CASE b = n + 1
        BY <1>1, <1>2, <2>2, <4>1, <4>3
      <4> QED
        BY <2>4, <4>2, <4>3
    <3>3. \A pt \in DOMAIN points : points[pt].job \in 1..n
                                   /\ jobs'[points[pt].job].status = "Completed"
      BY <1>1, <2>2 DEF AzureRecord
    <3>4. \A j \in 1..(n + 1) : jobs'[j].status = "Completed" =>
            \E pt \in DOMAIN points : points[pt].job = j
      BY <1>1, <2>2, <2>4 DEF AzureRecord
    <3>5. \A pt \in DOMAIN points : points[pt].job \in 1..(n + 1)
      BY <1>1, <3>3
    <3> QED
      BY <1>4, <2>2, <3>1, <3>2, <3>3, <3>4, <3>5 DEF AzureRecord
  <2> QED
    BY <2>3, <2>5
<1>5. ASSUME NEW j \in DOMAIN jobs, JobCompletes(j)
      PROVE  AzureRecord' /\ Later(jobs, points, jobs', points')
  <2> DEFINE new == [job |-> j, created |-> Clock + 1]
  <2>1. /\ DOMAIN jobs' = 1..n /\ Len(jobs') = n
        /\ \A i \in 1..n : /\ jobs'[i].started = jobs[i].started
                            /\ jobs'[i].status = IF i = j THEN "Completed" ELSE jobs[i].status
    BY <1>1, <1>2, <1>5 DEF JobCompletes, Job
  <2>2. new \in Point
    BY <1>1 DEF Point
  <2>3. /\ DOMAIN points' = 1..(k + 1) /\ Len(points') = k + 1
        /\ \A pt \in 1..k : points'[pt] = points[pt]
        /\ points'[k + 1].job = j /\ points'[k + 1].created = n + k + 1
    BY <1>1, <1>5, <2>2 DEF JobCompletes
  <2>4. Clock' = n + k + 1
    BY <1>1, <2>1, <2>3 DEF Clock
  <2>5. \A pt \in 1..(k + 1) : pt \in 1..k \/ pt = k + 1
    BY <1>1
  <2>6. Later(jobs, points, jobs', points')
    BY <1>1, <1>2, <2>1, <2>3, <2>5 DEF Later, AzureRecord
  <2>7. AzureRecord'
    <3>1. /\ \A i \in 1..n : jobs'[i].started <= n + k + 1
          /\ \A a, b \in 1..n : a < b => jobs'[a].started < jobs'[b].started
      <4>1. \A i \in 1..n : jobs[i].started <= n + k
        BY <1>1 DEF AzureRecord
      <4>2. \A a, b \in 1..n : a < b => jobs[a].started < jobs[b].started
        BY <1>1 DEF AzureRecord
      <4>3. \A i \in 1..n : jobs'[i].started = jobs[i].started /\ jobs[i].started \in Nat
        BY <1>2, <2>1
      <4>4. \A i \in 1..n : jobs'[i].started <= n + k + 1
        <5>1. SUFFICES ASSUME NEW i \in 1..n PROVE jobs'[i].started <= n + k + 1
          OBVIOUS
        <5>2. jobs'[i].started = jobs[i].started /\ jobs[i].started \in Nat /\ jobs[i].started <= n + k
          BY <4>1, <4>3
        <5> HIDE DEF n, k
        <5> QED
          BY <1>1, <5>2
      <4> QED
        BY <4>2, <4>3, <4>4
    <3>2. ASSUME NEW pt \in 1..(k + 1)
          PROVE  points'[pt].job \in 1..n /\ jobs'[points'[pt].job].status = "Completed"
      <4>1. CASE pt \in 1..k
        <5>1. points[pt].job \in 1..n /\ jobs[points[pt].job].status = "Completed"
          BY <1>1, <4>1 DEF AzureRecord
        <5> QED
          BY <2>1, <2>3, <4>1, <5>1
      <4>2. CASE pt = k + 1
        BY <1>1, <1>5, <2>1, <2>3, <4>2
      <4> QED
        BY <2>5, <4>1, <4>2
    <3>3. ASSUME NEW i \in DOMAIN jobs', jobs'[i].status = "Completed"
          PROVE  \E pt \in DOMAIN points' : points'[pt].job = i
      <4>1. CASE i = j
        BY <1>1, <2>3, <4>1
      <4>2. CASE i # j
        <5>1. PICK pt \in DOMAIN points : points[pt].job = i
          BY <1>1, <2>1, <3>3, <4>2 DEF AzureRecord
        <5> QED
          BY <1>1, <2>3, <5>1
      <4> QED
        BY <4>1, <4>2
    <3> QED
      BY <2>1, <2>3, <2>4, <3>1, <3>2, <3>3 DEF AzureRecord
  <2> QED
    BY <2>6, <2>7
<1>6. ASSUME NEW j \in DOMAIN jobs, JobFails(j)
      PROVE  AzureRecord' /\ Later(jobs, points, jobs', points')
  <2>1. /\ DOMAIN jobs' = 1..n /\ Len(jobs') = n
        /\ \A i \in 1..n : /\ jobs'[i].started = jobs[i].started
                            /\ jobs'[i].status = IF i = j THEN "Failed" ELSE jobs[i].status
        /\ jobs[j].status = "InProgress" /\ points' = points
    BY <1>1, <1>2, <1>6 DEF JobFails, Job
  <2>2. Clock' = Clock
    BY <1>1, <2>1 DEF Clock
  <2>3. Later(jobs, points, jobs', points')
    BY <1>1, <2>1 DEF Later
  <2>4. AzureRecord'
    BY <1>1, <1>2, <2>1, <2>2 DEF AzureRecord
  <2> QED
    BY <2>3, <2>4
<1> QED
  BY <1>3, <1>4, <1>5, <1>6
     DEF Next, Azure, ScheduledJob, Command, Crash, AttachDrill, Start, ReadJobs, ReadPoints,
         ReadFails, Diagnose, Verify, CommitIntent, RetryRefused, ClearStandalone, Invoke,
         RecordAttempt, RecordFile, MarkWrite, DatabaseFails, MarkUncertain, vars

\* A diagnosis that is a candidate is about a job of the list.
LEMMA LatestIsListed ==
    ASSUME AzureRecord, TypeOK, NEW s \in Snapshot, Past(s, jobs, points), Candidate(s)
    PROVE  LatestBackup(s) \in DOMAIN s.jobs
<1> DEFINE last == Len(s.jobs)
<1>1. s.jobs \in Seq(Job) /\ s.jobs # <<>>
  BY DEF Snapshot, Candidate
<1>2. last \in Nat \ {0} /\ DOMAIN s.jobs = 1..last /\ last <= Len(jobs)
  BY <1>1 DEF Past, JobsRead
<1>3. \A i \in 1..last : i \in DOMAIN jobs /\ s.jobs[i].started = jobs[i].started
  BY <1>2 DEF Past, JobsRead, TypeOK
<1>4. \A i \in 1..last : i < last => s.jobs[i].started < s.jobs[last].started
  BY <1>2, <1>3 DEF AzureRecord
<1>5. \A i \in 1..last : s.jobs[i].started \in Nat
  <2>1. \A i \in 1..last : s.jobs[i] \in Job
    BY <1>1, <1>2
  <2> QED
    BY <2>1 DEF Job
<1>6. /\ \A i \in DOMAIN s.jobs : s.jobs[i].started <= s.jobs[last].started
      /\ \A i \in 1..(last - 1) : s.jobs[i].started < s.jobs[last].started
  BY <1>2, <1>4, <1>5
<1> DEFINE Last(j) == /\ \A i \in DOMAIN s.jobs : s.jobs[i].started <= s.jobs[j].started
                      /\ \A i \in 1..(j - 1) : s.jobs[i].started < s.jobs[j].started
<1>7. \E j \in DOMAIN s.jobs : Last(j)
  BY <1>2, <1>6
<1>8. LatestBackup(s) = CHOOSE j \in DOMAIN s.jobs : Last(j)
  BY DEF LatestBackup
<1> HIDE DEF Last
<1> QED
  BY <1>7, <1>8

-----------------------------------------------------------------------------
\* A step that keeps or truly rewrites each row and what each process holds,
\* and clears nobody without cause.
LEMMA EvidenceStep ==
    ASSUME TypeInv, TypeInv', EvidenceInv, [Next]_vars, ClearedForCause',
           \A c \in Cases : cases'[c] = cases[c] \/ RowTrue(cases'[c], ScopeOf[c], jobs', points'),
           \A p \in Procs : proc'[p] = proc[p] \/ HeldTrue(proc'[p], jobs', points')
    PROVE  EvidenceInv'
<1>1. /\ TypeOK /\ RetryHasDiagnosis /\ AzureRecord
      /\ jobs \in Seq(Job) /\ points \in Seq(Point) /\ jobs' \in Seq(Job) /\ points' \in Seq(Point)
  BY DEF TypeInv, TypeOK, EvidenceInv
<1>2. AzureRecord' /\ Later(jobs, points, jobs', points')
  BY <1>1, HistoryGrows
<1>3. ASSUME NEW c \in Cases
      PROVE  RowTrue(cases'[c], ScopeOf[c], jobs', points')
  <2>1. cases[c] \in Case /\ (cases[c].state # "received" => cases[c].snapshot \in Snapshot)
    BY <1>1 DEF TypeOK, RetryHasDiagnosis
  <2>2. RowTrue(cases[c], ScopeOf[c], jobs, points)
    BY DEF EvidenceInv
  <2>3. RowTrue(cases[c], ScopeOf[c], jobs', points')
    BY <1>1, <1>2, <2>1, <2>2, RowStays
  <2> QED
    BY <2>3
<1>4. ASSUME NEW p \in Procs
      PROVE  HeldTrue(proc'[p], jobs', points')
  <2>1. proc[p] \in Process /\ HeldTrue(proc[p], jobs, points)
    BY <1>1 DEF TypeOK, EvidenceInv
  <2>2. HeldTrue(proc[p], jobs', points')
    BY <1>1, <1>2, <2>1, HeldStays
  <2> QED
    BY <2>2
<1> QED
  BY <1>2, <1>3, <1>4 DEF EvidenceInv

\* A diagnosis stands once it is made, so a cause stays a cause.
LEMMA CauseStays ==
    ASSUME TypeInv, EvidenceInv,
           \A c \in Cases : cases'[c].snapshot = cases[c].snapshot \/ cases[c].state = "received",
           \A r \in Procs : Minded(proc'[r]) =>
             \/ Minded(proc[r]) /\ proc'[r].case = proc[r].case
             \/ Candidate(cases'[proc'[r].case].snapshot)
    PROVE  ClearedForCause'
<1>1. ASSUME NEW r \in Procs, Minded(proc[r])
      PROVE  /\ proc[r].case \in Cases
             /\ cases'[proc[r].case].snapshot = cases[proc[r].case].snapshot
  <2>1. proc[r].pc # "idle" /\ proc[r].cmd \in Retries /\ proc[r].case \in Cases
    <3>1. proc[r] \in Process
      BY DEF TypeInv, TypeOK
    <3> QED
      BY <1>1, <3>1, ProcessFields DEF Minded, Retries
  <2>2. cases[proc[r].case].snapshot # None
    BY <2>1, NoneAssumption DEF TypeInv, RetryHasDiagnosis
  <2>3. cases[proc[r].case].state # "received"
    BY <2>1, <2>2 DEF EvidenceInv, RowTrue
  <2> QED
    BY <2>1, <2>3
<1>2. \A r \in Procs : Minded(proc[r]) => Candidate(cases[proc[r].case].snapshot)
  BY DEF EvidenceInv, ClearedForCause
<1>3. \A r \in Procs : Minded(proc'[r]) => Candidate(cases'[proc'[r].case].snapshot)
  BY <1>1, <1>2
<1> QED
  BY <1>3 DEF ClearedForCause

-----------------------------------------------------------------------------
\* The rows that the ledger's transactions write are true.
LEMMA DiagnosedIsTrue ==
    ASSUME TypeInv, EvidenceInv, NEW c \in Cases, cases[c].state = "received",
           NEW snap \in Snapshot, Past(snap, jobs, points)
    PROVE  RowTrue(Diagnosed(cases[c], snap), ScopeOf[c], jobs, points)
<1> DEFINE row == Diagnosed(cases[c], snap)
<1>1. cases[c] \in Case
  BY DEF TypeInv, TypeOK
<1>2. cases[c].attempt = None
  BY DEF EvidenceInv, RowTrue
<1>3. /\ row.state = IF Candidate(snap) THEN "diagnosed" ELSE "needs_review"
      /\ row.snapshot = snap /\ row.attempt = None
  BY <1>1, <1>2 DEF Diagnosed, Case
<1> HIDE DEF row
<1>6. RowTrue(row, ScopeOf[c], jobs, points)
  BY <1>3 DEF RowTrue, Awaited
<1> QED
  BY <1>6 DEF row

\* verify keeps the row's diagnosis and attempt and adds what it read.
LEMMA CheckedIsTrue ==
    ASSUME TypeInv, EvidenceInv, NEW c \in Cases, cases[c].state = "awaiting_result",
           NEW snap \in Snapshot, Past(snap, jobs, points)
    PROVE  RowTrue(Checked(cases[c], snap), ScopeOf[c], jobs, points)
<1> DEFINE row == Checked(cases[c], snap)
<1>1. cases[c] \in Case
  BY DEF TypeInv, TypeOK
<1>2. /\ Past(cases[c].snapshot, jobs, points)
      /\ cases[c].attempt # None /\ Answered(cases[c].attempt)
      /\ Genuine(cases[c].attempt, jobs, points)
      /\ cases[c].attempt.plan = cases[c].snapshot /\ cases[c].attempt.scope = ScopeOf[c]
  BY DEF EvidenceInv, RowTrue, Awaited
<1>3. /\ row.state = IF VerifiedBackup(cases[c].snapshot, snap, cases[c].attempt)
                     THEN "verified" ELSE "awaiting_result"
      /\ row.snapshot = cases[c].snapshot /\ row.attempt = cases[c].attempt /\ row.after = snap
  BY <1>1 DEF Checked, Case
<1>4. snap # None
  BY NoneAssumption
<1> HIDE DEF row
<1>6. RowTrue(row, ScopeOf[c], jobs, points)
  BY <1>2, <1>3, <1>4 DEF RowTrue, Awaited
<1> QED
  BY <1>6 DEF row

\* An attempt enters a row of its own diagnosis and scope alone.
LEMMA AttemptedIsTrue ==
    ASSUME TypeInv, EvidenceInv, NEW c \in Cases, NEW a \in Attempt, Bound(c, a),
           Genuine(a, jobs, points)
    PROVE  RowTrue(Attempted(cases[c], a), ScopeOf[c], jobs, points)
<1> DEFINE row == Attempted(cases[c], a)
<1>1. cases[c] \in Case
  BY DEF TypeInv, TypeOK
<1>2. cases[c].state = "diagnosed" /\ a.scope = ScopeOf[c] /\ a.plan = cases[c].snapshot
  BY DEF Bound
<1>3. Past(cases[c].snapshot, jobs, points)
  BY <1>2 DEF EvidenceInv, RowTrue
<1>4. /\ row.state = IF Answered(a) THEN "awaiting_result" ELSE "needs_review"
      /\ row.snapshot = cases[c].snapshot /\ row.attempt = a
  BY <1>1 DEF Attempted, Case, Answered
<1>5. a # None
  BY NoneAssumption
<1> HIDE DEF row
<1>6. RowTrue(row, ScopeOf[c], jobs, points)
  BY <1>2, <1>3, <1>4, <1>5 DEF RowTrue, Awaited
<1> QED
  BY <1>6 DEF row

-----------------------------------------------------------------------------
\* A process that ended holds nothing.
LEMMA IdleIsTrue == \A js, ps : HeldTrue(Idle, js, ps) /\ ~Minded(Idle)
BY DEF Idle, HeldTrue, Minded

\* A step that leaves the ledger's rows alone and moves one process on.
LEMMA ProcessStep ==
    ASSUME TypeInv, TypeInv', EvidenceInv, [Next]_vars, cases' = cases,
           NEW p \in Procs, NEW q, proc' = [proc EXCEPT ![p] = q],
           HeldTrue(q, jobs', points'),
           Minded(q) => \/ Minded(proc[p]) /\ q.case = proc[p].case
                        \/ Candidate(cases[q.case].snapshot)
    PROVE  EvidenceInv'
<1>1. \A r \in Procs : proc'[r] = IF r = p THEN q ELSE proc[r]
  BY DEF TypeInv, TypeOK
<1>2. ClearedForCause'
  <2>1. \A r \in Procs : Minded(proc'[r]) =>
             \/ Minded(proc[r]) /\ proc'[r].case = proc[r].case
             \/ Candidate(cases'[proc'[r].case].snapshot)
    BY <1>1
  <2> QED
    BY <2>1, CauseStays
<1>3. \A r \in Procs : proc'[r] = proc[r] \/ HeldTrue(proc'[r], jobs', points')
  BY <1>1
<1> QED
  BY <1>2, <1>3, EvidenceStep

\* A transaction that writes one row and moves its process on.
LEMMA TransactionStep ==
    ASSUME TypeInv, TypeInv', EvidenceInv, [Next]_vars, UNCHANGED <<jobs, points>>,
           NEW c \in Cases, NEW row, cases' = [cases EXCEPT ![c] = row],
           RowTrue(row, ScopeOf[c], jobs, points),
           row.snapshot = cases[c].snapshot \/ cases[c].state = "received",
           NEW p \in Procs, NEW q, proc' = [proc EXCEPT ![p] = q],
           HeldTrue(q, jobs, points),
           Minded(q) => Minded(proc[p]) /\ q.case = proc[p].case
    PROVE  EvidenceInv'
<1>1. /\ \A r \in Procs : proc'[r] = IF r = p THEN q ELSE proc[r]
      /\ \A d \in Cases : cases'[d] = IF d = c THEN row ELSE cases[d]
  BY DEF TypeInv, TypeOK
<1>2. ClearedForCause'
  <2>1. \A r \in Procs : Minded(proc'[r]) => Minded(proc[r]) /\ proc'[r].case = proc[r].case
    BY <1>1
  <2>2. \A d \in Cases : cases'[d].snapshot = cases[d].snapshot \/ cases[d].state = "received"
    BY <1>1
  <2> QED
    BY <2>1, <2>2, CauseStays
<1>3. \A r \in Procs : proc'[r] = proc[r] \/ HeldTrue(proc'[r], jobs', points')
  BY <1>1
<1>4. \A d \in Cases : cases'[d] = cases[d] \/ RowTrue(cases'[d], ScopeOf[d], jobs', points')
  BY <1>1
<1> QED
  BY <1>2, <1>3, <1>4, EvidenceStep

\* The four reads: what a command reads is evidence of that time.
LEMMA ReadsAreTrue ==
    ASSUME TypeInv, TypeInv', EvidenceInv, [Next]_vars, NEW p \in Procs,
           ReadJobs(p) \/ ReadPoints(p) \/ ReadFails(p)
    PROVE  EvidenceInv'
<1>0. /\ TypeOK /\ AzureRecord /\ proc[p] \in Process /\ HeldTrue(proc[p], jobs, points)
      /\ jobs \in Seq(Job) /\ points \in Seq(Point)
      /\ UNCHANGED <<jobs, points, cases>>
  BY DEF TypeInv, TypeOK, EvidenceInv, ReadJobs, ReadPoints, ReadFails
<1>1. CASE ReadJobs(p)
  <2> DEFINE q == [pc |-> "jobs", cmd |-> proc[p].cmd, case |-> proc[p].case, jobs |-> jobs]
  <2>1. JobsRead(jobs, jobs) /\ HavePoints(jobs, points)
    BY <1>0 DEF JobsRead, HavePoints, AzureRecord
  <2>2. q.pc = "jobs" /\ q.jobs = jobs /\ q.cmd = proc[p].cmd /\ q.case = proc[p].case
    OBVIOUS
  <2>3. proc' = [proc EXCEPT ![p] = q] /\ proc[p].pc = "account"
    BY <1>1 DEF ReadJobs
  <2> HIDE DEF q
  <2>4. HeldTrue(q, jobs', points')
    BY <1>0, <2>1, <2>2 DEF HeldTrue
  <2>5. Minded(q) => Minded(proc[p]) /\ q.case = proc[p].case
    BY <2>2, <2>3 DEF Minded
  <2> QED
    BY <1>0, <2>3, <2>4, <2>5, ProcessStep
<1>2. CASE ReadPoints(p)
  <2> DEFINE snap == Evidence(proc[p].jobs, points)
             q == Collected(p, snap)
  <2>1. JobsRead(proc[p].jobs, jobs) /\ HavePoints(proc[p].jobs, points)
    BY <1>0, <1>2 DEF ReadPoints, HeldTrue
  <2>2. Past(snap, jobs, points)
    <3>1. snap.jobs = proc[p].jobs /\ snap.points = points
      BY DEF Evidence
    <3> HIDE DEF snap
    <3> QED
      BY <1>0, <2>1, <3>1 DEF Past
  <2>3. q.pc = "collected" /\ q.snap = snap /\ q.cmd = proc[p].cmd /\ q.case = proc[p].case
    BY DEF Collected
  <2>4. proc' = [proc EXCEPT ![p] = q] /\ proc[p].pc = "jobs"
    BY <1>2 DEF ReadPoints
  <2> HIDE DEF q, snap
  <2>5. HeldTrue(q, jobs', points')
    BY <1>0, <2>2, <2>3 DEF HeldTrue
  <2>6. Minded(q) => Minded(proc[p]) /\ q.case = proc[p].case
    BY <2>3, <2>4 DEF Minded
  <2> QED
    BY <1>0, <2>4, <2>5, <2>6, ProcessStep
<1>3. CASE ReadFails(p)
  <2>1. PICK verified \in BOOLEAN :
          proc' = [proc EXCEPT ![p] = Collected(p, [observed |-> FALSE, account |-> verified,
                                                    jobs |-> <<>>, points |-> <<>>])]
    BY <1>3 DEF ReadFails
  <2> DEFINE snap == [observed |-> FALSE, account |-> verified, jobs |-> <<>>, points |-> <<>>]
             q == Collected(p, snap)
  <2>2. Past(snap, jobs, points)
    BY <1>0 DEF Past, JobsRead, HavePoints
  <2>3. q.pc = "collected" /\ q.snap = snap /\ q.cmd = proc[p].cmd /\ q.case = proc[p].case
    BY DEF Collected
  <2>4. proc' = [proc EXCEPT ![p] = q] /\ proc[p].pc = "account"
    BY <1>3, <2>1 DEF ReadFails
  <2> HIDE DEF q, snap
  <2>5. HeldTrue(q, jobs', points')
    BY <1>0, <2>2, <2>3 DEF HeldTrue
  <2>6. Minded(q) => Minded(proc[p]) /\ q.case = proc[p].case
    BY <2>3, <2>4 DEF Minded
  <2> QED
    BY <1>0, <2>4, <2>5, <2>6, ProcessStep
<1> QED
  BY <1>1, <1>2, <1>3

\* diagnose and verify write what they read of Azure, or nothing.
LEMMA DiagnoseIsTrue ==
    ASSUME TypeInv, TypeInv', EvidenceInv, [Next]_vars, NEW p \in Procs,
           Diagnose(p) \/ Verify(p)
    PROVE  EvidenceInv'
<1> DEFINE c == proc[p].case
           snap == proc[p].snap
<1>0. /\ c \in Cases /\ snap \in Snapshot /\ Past(snap, jobs, points)
      /\ UNCHANGED <<jobs, points>> /\ proc' = [proc EXCEPT ![p] = Idle] /\ cases[c] \in Case
  <2>1. proc[p] \in Process /\ proc[p].pc = "collected" /\ HeldTrue(proc[p], jobs, points)
    BY DEF TypeInv, TypeOK, EvidenceInv, Diagnose, Verify
  <2>2. c \in Cases /\ snap \in Snapshot /\ Past(snap, jobs, points)
    BY <2>1, ProcessFields DEF HeldTrue
  <2> QED
    BY <2>2 DEF Diagnose, Verify, TypeInv, TypeOK
<1>1. CASE cases' = cases
  BY <1>0, <1>1, IdleIsTrue, ProcessStep
<1>2. CASE cases[c].state = "received" /\ cases' = [cases EXCEPT ![c] = Diagnosed(cases[c], snap)]
  BY <1>0, <1>2, IdleIsTrue, DiagnosedIsTrue, TransactionStep
<1>3. CASE cases[c].state = "awaiting_result" /\ cases' = [cases EXCEPT ![c] = Checked(cases[c], snap)]
  <2>1. Checked(cases[c], snap).snapshot = cases[c].snapshot
    BY <1>0 DEF Checked, Case
  <2> QED
    BY <1>0, <1>3, <2>1, IdleIsTrue, CheckedIsTrue, TransactionStep
<1> QED
  BY <1>1, <1>2, <1>3 DEF Diagnose, Verify, Undiagnosed

\* The attempt that an answered call brings back is about the job it started.
LEMMA AnswerIsTrue ==
    ASSUME TypeInv, TypeInv', EvidenceInv, [Next]_vars, NEW p \in Procs,
           proc[p].pc = "cleared", NEW accepted \in BOOLEAN, NEW job \in Nat,
           points' = points,
           accepted /\ job # NoJob => jobs' = Started /\ job = Len(jobs) + 1
    PROVE  HeldTrue(Returned(p, accepted, job), jobs', points')
<1> DEFINE c == proc[p].case
           a == [started |-> CalledAt, accepted |-> accepted, job |-> job,
                 plan |-> cases[c].snapshot, scope |-> ScopeOf[c]]
<1>1. /\ TypeOK /\ AzureRecord /\ jobs \in Seq(Job) /\ points \in Seq(Point)
      /\ jobs' \in Seq(Job) /\ points' \in Seq(Point)
  BY DEF TypeInv, TypeOK, EvidenceInv
<1>2. Later(jobs, points, jobs', points') /\ AzureRecord'
  BY <1>1, HistoryGrows
<1>3. /\ c \in Cases /\ cases[c].snapshot \in Snapshot /\ Candidate(cases[c].snapshot)
      /\ Past(cases[c].snapshot, jobs, points)
  <2>1. proc[p] \in Process /\ proc[p].pc # "idle"
    BY <1>1 DEF TypeOK
  <2>2. c \in Cases /\ proc[p].cmd \in Retries
    BY <2>1, ProcessFields
  <2>3. cases[c].snapshot \in Snapshot
    BY <2>1, <2>2 DEF TypeInv, RetryHasDiagnosis
  <2>4. Candidate(cases[c].snapshot)
    BY DEF EvidenceInv, ClearedForCause, Minded
  <2>5. cases[c].state # "received"
    BY <2>2, <2>3, NoneAssumption DEF EvidenceInv, RowTrue
  <2> QED
    BY <2>2, <2>3, <2>4, <2>5 DEF EvidenceInv, RowTrue
<1>4. Past(cases[c].snapshot, jobs', points')
  BY <1>1, <1>2, <1>3, PastStays
<1>5. ASSUME accepted, job # NoJob
      PROVE  /\ job \in DOMAIN jobs' /\ job \notin DOMAIN cases[c].snapshot.jobs
             /\ CalledAt <= jobs'[job].started
             /\ \A pt \in DOMAIN points' : points'[pt].job # job
  <2>1. Clock \in Nat /\ Len(jobs) \in Nat /\ DOMAIN jobs = 1..Len(jobs)
    BY <1>1 DEF Clock
  <2>2. [status |-> "InProgress", started |-> Clock + 1] \in Job
    BY <2>1 DEF Job, JobStates
  <2>3. job \in DOMAIN jobs' /\ jobs'[job].started = Clock + 1
    BY <1>1, <1>5, <2>1, <2>2 DEF Started
  <2>4. job \notin DOMAIN cases[c].snapshot.jobs
    <3>1. cases[c].snapshot.jobs \in Seq(Job) /\ Len(cases[c].snapshot.jobs) <= Len(jobs)
      BY <1>3 DEF Past, JobsRead, Snapshot
    <3> QED
      BY <1>5, <2>1, <3>1
  <2>5. \A pt \in DOMAIN points' : points'[pt].job # job
    BY <1>5, <2>1, <1>1 DEF AzureRecord
  <2> QED
    BY <2>1, <2>3, <2>4, <2>5 DEF CalledAt
<1>6. /\ a.started = CalledAt /\ a.accepted = accepted /\ a.job = job
      /\ a.plan = cases[c].snapshot
  OBVIOUS
<1>7. Returned(p, accepted, job).pc = "invoked" /\ Returned(p, accepted, job).attempt = a
  BY DEF Returned
<1> HIDE DEF a
<1>8. Genuine(a, jobs', points')
  BY <1>3, <1>4, <1>5, <1>6 DEF Genuine, Answered
<1> QED
  BY <1>7, <1>8 DEF HeldTrue

\* One call, answered or not.
LEMMA InvokeIsTrue ==
    ASSUME TypeInv, TypeInv', EvidenceInv, [Next]_vars, NEW p \in Procs, Invoke(p)
    PROVE  EvidenceInv'
<1>1. /\ TypeOK /\ proc[p].pc = "cleared" /\ cases' = cases /\ points' = points
      /\ Len(jobs) + 1 \in Nat /\ NoJob \in Nat /\ Minded(proc[p])
  BY DEF Invoke, TypeInv, TypeOK, NoJob, Minded
<1>2. At(p, "raised").case = proc[p].case /\ HeldTrue(At(p, "raised"), jobs', points')
  BY DEF At, HeldTrue
<1>3. \A accepted, job : Returned(p, accepted, job).case = proc[p].case
  BY DEF Returned
<1>4. HeldTrue(Returned(p, FALSE, NoJob), jobs', points')
  BY <1>1, AnswerIsTrue
<1>5. \A q \in Unanswered(p) : q.case = proc[p].case /\ HeldTrue(q, jobs', points')
  BY <1>2, <1>3, <1>4 DEF Unanswered
<1>6. ASSUME jobs' = Started
      PROVE  /\ HeldTrue(Returned(p, TRUE, Len(jobs) + 1), jobs', points')
             /\ HeldTrue(Returned(p, TRUE, NoJob), jobs', points')
  BY <1>1, <1>6, AnswerIsTrue
<1>7. \E q : /\ proc' = [proc EXCEPT ![p] = q]
             /\ q.case = proc[p].case /\ HeldTrue(q, jobs', points')
  <2>1. CASE /\ jobs' = Started
             /\ \E q \in {Returned(p, TRUE, Len(jobs) + 1), Returned(p, TRUE, NoJob)}
                           \cup Unanswered(p) : proc' = [proc EXCEPT ![p] = q]
    <3>1. PICK q \in {Returned(p, TRUE, Len(jobs) + 1), Returned(p, TRUE, NoJob)}
                           \cup Unanswered(p) : proc' = [proc EXCEPT ![p] = q]
      BY <2>1
    <3>2. q.case = proc[p].case /\ HeldTrue(q, jobs', points')
      <4>1. CASE q \in Unanswered(p)
        BY <1>5, <4>1
      <4>2. CASE q = Returned(p, TRUE, Len(jobs) + 1)
        BY <1>3, <1>6, <2>1, <4>2
      <4>3. CASE q = Returned(p, TRUE, NoJob)
        BY <1>3, <1>6, <2>1, <4>3
      <4> QED
        BY <3>1, <4>1, <4>2, <4>3
    <3> QED
      BY <3>1, <3>2
  <2>2. CASE \E q \in Unanswered(p) : proc' = [proc EXCEPT ![p] = q]
    BY <1>5, <2>2
  <2> QED
    BY <2>1, <2>2 DEF Invoke
<1> QED
  BY <1>1, <1>7, ProcessStep

\* What a call brought back is recorded as it is, in its own case or, from a
\* file, in any case that it fits.
LEMMA RecordIsTrue ==
    ASSUME TypeInv, TypeInv', EvidenceInv, [Next]_vars, NEW p \in Procs,
           RecordAttempt(p) \/ \E c \in Cases : RecordFile(p, c)
    PROVE  EvidenceInv'
<1>0. /\ proc[p] \in Process /\ proc[p].pc = "invoked" /\ proc[p].case \in Cases
      /\ proc[p].attempt \in Attempt /\ Genuine(proc[p].attempt, jobs, points)
      /\ HeldTrue(proc[p], jobs, points) /\ UNCHANGED <<jobs, points>>
      /\ proc[p].cmd \in Retries /\ \A c \in Cases : cases[c] \in Case
  BY ProcessFields DEF RecordAttempt, RecordFile, TypeInv, TypeOK, EvidenceInv, HeldTrue
<1>1. \A c \in Cases : Attempted(cases[c], proc[p].attempt).snapshot = cases[c].snapshot
  BY <1>0 DEF Attempted, Case
<1>2. CASE RecordAttempt(p) /\ Bound(proc[p].case, proc[p].attempt)
  <2> DEFINE q == [proc[p] EXCEPT !.pc = "recorded"]
  <2>1. proc' = [proc EXCEPT ![p] = q] /\ proc[p].cmd = "retry"
    BY <1>0, <1>2 DEF RecordAttempt, TypeInv, TypeOK
  <2>2. q.pc = "recorded" /\ q.cmd = "retry" /\ q.attempt = proc[p].attempt
    BY <1>0, <2>1 DEF Process, Idle
  <2> HIDE DEF q
  <2>3. HeldTrue(q, jobs, points) /\ ~Minded(q)
    BY <1>0, <2>2 DEF HeldTrue, Minded
  <2>4. cases' = [cases EXCEPT ![proc[p].case] = Attempted(cases[proc[p].case], proc[p].attempt)]
    BY <1>2 DEF RecordAttempt
  <2> QED
    BY <1>0, <1>1, <1>2, <2>1, <2>3, <2>4, AttemptedIsTrue, TransactionStep
<1>3. CASE RecordAttempt(p) /\ ~Bound(proc[p].case, proc[p].attempt)
  <2>1. cases' = cases /\ proc' = [proc EXCEPT ![p] = At(p, "raised")] /\ proc[p].cmd = "retry"
    BY <1>3 DEF RecordAttempt
  <2>2. HeldTrue(At(p, "raised"), jobs', points') /\ ~Minded(At(p, "raised"))
    BY <2>1 DEF At, HeldTrue, Minded
  <2> QED
    BY <2>1, <2>2, ProcessStep
<1>4. ASSUME NEW c \in Cases, RecordFile(p, c)
      PROVE  EvidenceInv'
  <2>1. proc' = [proc EXCEPT ![p] = proc[p]]
    BY <1>4 DEF RecordFile, TypeInv, TypeOK
  <2>2. CASE Bound(c, proc[p].attempt)
    <3>1. cases' = [cases EXCEPT ![c] = Attempted(cases[c], proc[p].attempt)]
      BY <1>4, <2>2 DEF RecordFile
    <3> QED
      BY <1>0, <1>1, <2>1, <2>2, <3>1, AttemptedIsTrue, TransactionStep
  <2>3. CASE ~Bound(c, proc[p].attempt)
    <3>1. cases' = cases
      BY <1>4, <2>3 DEF RecordFile
    <3> QED
      BY <1>0, <2>1, <3>1, ProcessStep
  <2> QED
    BY <2>2, <2>3
<1> QED
  BY <1>2, <1>3, <1>4

\* The other moves of a command carry no evidence on.
LEMMA MovesAreTrue ==
    ASSUME TypeInv, TypeInv', EvidenceInv, [Next]_vars, NEW p \in Procs,
           \/ \E cmd \in Commands, c \in Cases : Start(p, cmd, c)
           \/ CommitIntent(p) \/ RetryRefused(p) \/ ClearStandalone(p)
           \/ MarkWrite(p) \/ DatabaseFails(p) \/ MarkUncertain(p) \/ Crash(p)
    PROVE  EvidenceInv'
<1>0. cases' = cases
  BY DEF Start, CommitIntent, RetryRefused, ClearStandalone, MarkWrite, DatabaseFails,
         MarkUncertain, Crash
<1>1. ASSUME NEW cmd \in Commands, NEW c \in Cases, Start(p, cmd, c)
      PROVE  EvidenceInv'
  <2> DEFINE q == [pc |-> "account", cmd |-> cmd, case |-> c]
  <2>1. q.pc = "account" /\ q.cmd = cmd /\ q.case = c
    OBVIOUS
  <2>2. proc' = [proc EXCEPT ![p] = q]
    BY <1>1 DEF Start
  <2>3. cmd = "standalone" => Candidate(cases[c].snapshot)
    BY <1>1 DEF Start, MayStart
  <2> HIDE DEF q
  <2>4. HeldTrue(q, jobs', points') /\ (Minded(q) => Candidate(cases[q.case].snapshot))
    BY <2>1, <2>3 DEF HeldTrue, Minded
  <2> QED
    BY <1>0, <2>2, <2>4, ProcessStep
<1>2. CASE CommitIntent(p)
  <2> DEFINE q == At(p, "cleared")
  <2>1. q.pc = "cleared" /\ q.case = proc[p].case /\ proc' = [proc EXCEPT ![p] = q]
    BY <1>2 DEF CommitIntent, At
  <2>2. proc[p].case \in Cases /\ cases[proc[p].case].state = "diagnosed"
    BY <1>2, ProcessFields DEF CommitIntent, IntentAllowed, TypeInv, TypeOK
  <2>3. Candidate(cases[proc[p].case].snapshot)
    BY <2>2 DEF EvidenceInv, RowTrue
  <2> HIDE DEF q
  <2>4. HeldTrue(q, jobs', points')
    BY <2>1 DEF HeldTrue
  <2> QED
    BY <1>0, <2>1, <2>3, <2>4, ProcessStep
<1>3. CASE ClearStandalone(p)
  <2> DEFINE q == At(p, "cleared")
  <2>1. q.pc = "cleared" /\ q.case = proc[p].case /\ proc' = [proc EXCEPT ![p] = q]
    BY <1>3 DEF ClearStandalone, At
  <2>2. Minded(proc[p])
    BY <1>3 DEF ClearStandalone, Minded
  <2> HIDE DEF q
  <2>3. HeldTrue(q, jobs', points')
    BY <2>1 DEF HeldTrue
  <2> QED
    BY <1>0, <2>1, <2>2, <2>3, ProcessStep
<1>4. CASE RetryRefused(p) \/ MarkWrite(p) \/ MarkUncertain(p) \/ Crash(p)
  BY <1>0, <1>4, IdleIsTrue, ProcessStep DEF RetryRefused, MarkWrite, MarkUncertain, Crash
<1>5. CASE DatabaseFails(p)
  <2>1. HeldTrue(At(p, "raised"), jobs', points') /\ ~Minded(At(p, "raised"))
    BY <1>5 DEF DatabaseFails, At, HeldTrue, Minded
  <2> QED
    BY <1>0, <1>5, <2>1, ProcessStep DEF DatabaseFails
<1> QED
  BY <1>1, <1>2, <1>3, <1>4, <1>5

\* What the ledger and the processes hold of Azure is true, however old.
LEMMA EvidenceInvariant == Spec => [](TypeInv /\ EvidenceInv)
<1>1. Init => EvidenceInv
  <2> SUFFICES ASSUME Init PROVE EvidenceInv
    OBVIOUS
  <2> DEFINE first == [status |-> "Failed", started |-> 1]
  <2>1. /\ Len(jobs) = 1 /\ DOMAIN jobs = {1} /\ jobs[1] = first
        /\ points = <<>> /\ Len(points) = 0 /\ DOMAIN points = {} /\ Clock = 1
    BY DEF Init, Clock
  <2>2. AzureRecord
    BY <2>1 DEF AzureRecord
  <2>3. ASSUME NEW c \in Cases
        PROVE  RowTrue(cases[c], ScopeOf[c], jobs, points)
    BY DEF Init, RowTrue, Awaited
  <2>4. ASSUME NEW p \in Procs
        PROVE  HeldTrue(proc[p], jobs, points) /\ ~Minded(proc[p])
    BY IdleIsTrue DEF Init
  <2> QED
    BY <2>2, <2>3, <2>4 DEF EvidenceInv, ClearedForCause
<1>2. TypeInv /\ TypeInv' /\ EvidenceInv /\ [Next]_vars => EvidenceInv'
  <2> SUFFICES ASSUME TypeInv, TypeInv', EvidenceInv, [Next]_vars PROVE EvidenceInv'
    OBVIOUS
  <2>1. CASE UNCHANGED <<cases, proc>>
    <3>1. ClearedForCause'
      BY <2>1 DEF EvidenceInv, ClearedForCause
    <3> QED
      BY <2>1, <3>1, EvidenceStep
  <2>2. ASSUME NEW p \in Procs, Command(p) \/ Crash(p)
        PROVE  EvidenceInv'
    <3>1. CASE ReadJobs(p) \/ ReadPoints(p) \/ ReadFails(p)
      BY <3>1, ReadsAreTrue
    <3>2. CASE Diagnose(p) \/ Verify(p)
      BY <3>2, DiagnoseIsTrue
    <3>3. CASE Invoke(p)
      BY <3>3, InvokeIsTrue
    <3>4. CASE RecordAttempt(p) \/ \E c \in Cases : RecordFile(p, c)
      BY <3>4, RecordIsTrue
    <3>5. CASE \/ \E cmd \in Commands, c \in Cases : Start(p, cmd, c)
               \/ CommitIntent(p) \/ RetryRefused(p) \/ ClearStandalone(p)
               \/ MarkWrite(p) \/ DatabaseFails(p) \/ MarkUncertain(p) \/ Crash(p)
      BY <3>5, MovesAreTrue
    <3> QED
      BY <2>2, <3>1, <3>2, <3>3, <3>4, <3>5 DEF Command
  <2>3. CASE Azure \/ \E c \in Cases, pt \in DOMAIN points : AttachDrill(c, pt)
    BY <2>1, <2>3 DEF Azure, ScheduledJob, JobCompletes, JobFails, AttachDrill
  <2>4. CASE UNCHANGED vars
    BY <2>1, <2>4 DEF vars
  <2> QED
    BY <2>2, <2>3, <2>4 DEF Next
<1> QED
  BY <1>1, <1>2, TypeInvariant, PTL DEF Spec

-----------------------------------------------------------------------------
(***************************************************************************)
(* A retry that recorded its attempt is the one that its case holds, and a *)
(* write is marked "recorded" by such a retry alone.                       *)
(***************************************************************************)
Recording ==
    /\ \A p \in Procs : proc[p].pc \in {"invoked", "recorded"} /\ proc[p].cmd = "retry" =>
         invoked[proc[p].case] > 0
    /\ \A p \in Procs : proc[p].pc = "recorded" =>
         /\ proc[p].cmd = "retry"
         /\ cases[proc[p].case].attempt = proc[p].attempt
    /\ \A c \in Cases : writes[c] = "recorded" =>
         /\ cases[c].attempt # None /\ Answered(cases[c].attempt)
         /\ invoked[c] > 0

\* An attempt is recorded in a case once and stays.
LEMMA AttemptsStand ==
    ASSUME TypeInv, EvidenceInv, [Next]_vars, NEW c \in Cases, cases[c].attempt # None
    PROVE  cases'[c].attempt = cases[c].attempt
<1>1. cases[c].state \notin {"received", "diagnosed"} /\ cases \in [Cases -> Case] /\ cases[c] \in Case
  BY DEF TypeInv, TypeOK, EvidenceInv, RowTrue
<1>2. CASE cases' = cases
  BY <1>2
<1>3. ASSUME NEW d \in Cases, NEW row, cases' = [cases EXCEPT ![d] = row],
             d = c => row.attempt = cases[c].attempt
      PROVE  cases'[c].attempt = cases[c].attempt
  BY <1>1, <1>3
<1>4. ASSUME NEW p \in Procs, Diagnose(p) \/ Verify(p)
      PROVE  cases'[c].attempt = cases[c].attempt
  <2>1. proc[p].case \in Cases
    BY <1>4, ProcessFields DEF Diagnose, Verify, TypeInv, TypeOK
  <2>2. Checked(cases[c], proc[p].snap).attempt = cases[c].attempt
    BY <1>1 DEF Checked, Case
  <2> QED
    BY <1>1, <1>2, <1>3, <1>4, <2>1, <2>2 DEF Diagnose, Verify, Undiagnosed
<1>5. ASSUME NEW p \in Procs, RecordAttempt(p) \/ \E d \in Cases : RecordFile(p, d)
      PROVE  cases'[c].attempt = cases[c].attempt
  <2>1. proc[p].case \in Cases
    BY <1>5, ProcessFields DEF RecordAttempt, RecordFile, TypeInv, TypeOK
  <2> QED
    BY <1>1, <1>2, <1>3, <1>5, <2>1 DEF RecordAttempt, RecordFile, Bound
<1> QED
  BY <1>2, <1>4, <1>5
     DEF Next, Azure, ScheduledJob, JobCompletes, JobFails, Command, Crash, AttachDrill, Start,
         ReadJobs, ReadPoints, ReadFails, CommitIntent, RetryRefused, ClearStandalone, Invoke,
         MarkWrite, DatabaseFails, MarkUncertain, vars

\* The count of a case's calls never falls.
LEMMA InvocationsGrow ==
    ASSUME TypeInv, [Next]_vars, NEW c \in Cases
    PROVE  invoked'[c] \in Nat /\ invoked[c] \in Nat /\ invoked'[c] >= invoked[c]
<1>1. invoked \in [Cases -> Nat]
  BY DEF TypeInv, TypeOK
<1>2. CASE invoked' = invoked
  BY <1>1, <1>2
<1>3. ASSUME NEW p \in Procs, Invoke(p)
      PROVE  invoked'[c] \in Nat /\ invoked'[c] >= invoked[c]
  BY <1>1, <1>3 DEF Invoke
<1> QED
  BY <1>1, <1>2, <1>3
     DEF Next, Azure, ScheduledJob, JobCompletes, JobFails, Command, Crash, AttachDrill, Start,
         ReadJobs, ReadPoints, ReadFails, Diagnose, Verify, CommitIntent, RetryRefused,
         ClearStandalone, RecordAttempt, RecordFile, MarkWrite, DatabaseFails, MarkUncertain, vars

\* A step that moves one process on, and marks a write "recorded" only for
\* the attempt of its case.
LEMMA RecordingStep ==
    ASSUME TypeInv, EvidenceInv, Recording, [Next]_vars, NEW p \in Procs, NEW q,
           proc' = [proc EXCEPT ![p] = q],
           q.pc \in {"invoked", "recorded"} /\ q.cmd = "retry" =>
             q.case \in Cases /\ invoked'[q.case] > 0,
           q.pc = "recorded" =>
             q.cmd = "retry" /\ q.case \in Cases /\ cases'[q.case].attempt = q.attempt,
           \A c \in Cases : writes'[c] = "recorded" /\ writes[c] # "recorded" =>
             /\ cases[c].attempt # None /\ Answered(cases[c].attempt)
             /\ invoked[c] > 0
    PROVE  Recording'
<1>1. \A r \in Procs : proc'[r] = IF r = p THEN q ELSE proc[r]
  BY DEF TypeInv, TypeOK
<1>2. \A c \in Cases : cases[c].attempt # None => cases'[c].attempt = cases[c].attempt
  BY AttemptsStand
<1>3. \A c \in Cases : invoked'[c] \in Nat /\ invoked[c] \in Nat /\ invoked'[c] >= invoked[c]
  BY InvocationsGrow
<1>4. \A r \in Procs : proc[r].pc \in {"invoked", "recorded"} =>
        proc[r].case \in Cases /\ proc[r].attempt \in Attempt /\ proc[r].attempt # None
  BY ProcessFields, NoneAssumption DEF TypeInv, TypeOK
<1>5. \A r \in Procs : proc'[r].pc \in {"invoked", "recorded"} /\ proc'[r].cmd = "retry" =>
         invoked'[proc'[r].case] > 0
  <2> SUFFICES ASSUME NEW r \in Procs, proc'[r].pc \in {"invoked", "recorded"}, proc'[r].cmd = "retry"
               PROVE  invoked'[proc'[r].case] > 0
    OBVIOUS
  <2>1. CASE r = p
    BY <1>1, <2>1
  <2>2. CASE r # p
    <3>1. proc'[r] = proc[r] /\ proc[r].case \in Cases /\ invoked[proc[r].case] > 0
      BY <1>1, <1>4, <2>2 DEF Recording
    <3> QED
      BY <1>3, <3>1
  <2> QED
    BY <2>1, <2>2
<1>6. \A r \in Procs : proc'[r].pc = "recorded" =>
         proc'[r].cmd = "retry" /\ cases'[proc'[r].case].attempt = proc'[r].attempt
  <2> SUFFICES ASSUME NEW r \in Procs, proc'[r].pc = "recorded"
               PROVE  proc'[r].cmd = "retry" /\ cases'[proc'[r].case].attempt = proc'[r].attempt
    OBVIOUS
  <2>1. CASE r = p
    BY <1>1, <2>1
  <2>2. CASE r # p
    BY <1>1, <1>2, <1>4, <2>2 DEF Recording
  <2> QED
    BY <2>1, <2>2
<1>7. ASSUME NEW c \in Cases, writes'[c] = "recorded"
      PROVE  cases'[c].attempt # None /\ Answered(cases'[c].attempt) /\ invoked'[c] > 0
  <2>1. cases[c].attempt # None /\ Answered(cases[c].attempt) /\ invoked[c] > 0
    BY <1>7 DEF Recording
  <2> QED
    BY <1>2, <1>3, <2>1
<1> QED
  BY <1>5, <1>6, <1>7 DEF Recording

\* Recording is an invariant, given the type and the evidence invariants.
LEMMA RecordingInvariant == Spec => []Recording
<1>1. Init => Recording
  BY DEF Init, Recording, Idle
<1>2. TypeInv /\ EvidenceInv /\ Recording /\ [Next]_vars => Recording'
  <2> SUFFICES ASSUME TypeInv, EvidenceInv, Recording, [Next]_vars PROVE Recording'
    OBVIOUS
  <2>0. TypeOK /\ \A p \in Procs : proc[p] \in Process
    BY DEF TypeInv, TypeOK
  <2>1. CASE UNCHANGED <<cases, writes, proc, invoked>>
    BY <2>1 DEF Recording
  <2>2. ASSUME NEW p \in Procs, Invoke(p)
        PROVE  Recording'
    <3>1. PICK q \in Process : /\ proc' = [proc EXCEPT ![p] = q] /\ q.pc \in {"invoked", "raised"}
                               /\ q.cmd = proc[p].cmd /\ q.case = proc[p].case
      BY <2>2, AnswerType
    <3>2. proc[p].case \in Cases /\ writes' = writes
      BY <2>0, <2>2, ProcessFields DEF Invoke
    <3>3. proc[p].cmd = "retry" => invoked'[proc[p].case] > 0
      BY <2>0, <2>2, <3>2 DEF Invoke, TypeOK
    <3> QED
      BY <3>1, <3>2, <3>3, RecordingStep
  <2>3. ASSUME NEW p \in Procs, RecordAttempt(p)
        PROVE  Recording'
    <3> DEFINE c == proc[p].case
               q == [proc[p] EXCEPT !.pc = "recorded"]
    <3>1. /\ c \in Cases /\ cases[c] \in Case /\ proc[p].pc = "invoked" /\ proc[p].cmd = "retry"
          /\ writes' = writes /\ invoked' = invoked /\ proc[p].attempt \in Attempt
      BY <2>0, <2>3, ProcessFields DEF RecordAttempt, TypeOK
    <3>2. CASE Bound(c, proc[p].attempt)
      <4>1. proc' = [proc EXCEPT ![p] = q] /\ cases' = [cases EXCEPT ![c] = Attempted(cases[c], proc[p].attempt)]
        BY <2>0, <2>3, <3>2 DEF RecordAttempt, TypeOK
      <4>2. q.pc = "recorded" /\ q.cmd = "retry" /\ q.case = c /\ q.attempt = proc[p].attempt
        BY <2>0, <3>1 DEF Process, Idle
      <4>3. cases'[c].attempt = proc[p].attempt
        BY <2>0, <3>1, <4>1 DEF Attempted, Case, TypeOK
      <4>4. invoked'[c] > 0
        BY <3>1 DEF Recording
      <4> HIDE DEF q
      <4> QED
        BY <3>1, <4>1, <4>2, <4>3, <4>4, RecordingStep
    <3>3. CASE ~Bound(c, proc[p].attempt)
      <4>1. proc' = [proc EXCEPT ![p] = At(p, "raised")]
        BY <2>3, <3>3 DEF RecordAttempt
      <4>2. At(p, "raised").pc = "raised"
        BY DEF At
      <4> QED
        BY <3>1, <4>1, <4>2, RecordingStep
    <3> QED
      BY <3>2, <3>3
  <2>4. ASSUME NEW p \in Procs, NEW c \in Cases, RecordFile(p, c)
        PROVE  Recording'
    <3>1. /\ proc[p].pc = "invoked" /\ proc[p].cmd = "standalone" /\ writes' = writes
          /\ proc' = [proc EXCEPT ![p] = proc[p]]
      BY <2>0, <2>4 DEF RecordFile, TypeOK
    <3> QED
      BY <3>1, RecordingStep
  <2>5. ASSUME NEW p \in Procs, MarkWrite(p)
        PROVE  Recording'
    <3>1. /\ proc[p].case \in Cases /\ proc[p].attempt \in Attempt /\ proc[p].pc = "recorded"
          /\ proc' = [proc EXCEPT ![p] = Idle]
          /\ writes' = [writes EXCEPT ![proc[p].case] = WriteState(proc[p].attempt)]
      BY <2>0, <2>5, ProcessFields DEF MarkWrite
    <3>2. /\ cases[proc[p].case].attempt = proc[p].attempt /\ proc[p].attempt # None
          /\ invoked[proc[p].case] > 0
      BY <3>1, NoneAssumption DEF Recording
    <3>3. \A c \in Cases : writes'[c] = "recorded" /\ writes[c] # "recorded" =>
             /\ cases[c].attempt # None /\ Answered(cases[c].attempt)
             /\ invoked[c] > 0
      BY <2>0, <3>1, <3>2 DEF WriteState, Answered, TypeOK
    <3> QED
      BY <3>1, <3>3, IdleType, RecordingStep
  <2>6. ASSUME NEW p \in Procs,
               \/ Diagnose(p) \/ Verify(p) \/ RetryRefused(p) \/ MarkUncertain(p) \/ Crash(p)
        PROVE  Recording'
    <3>1. proc' = [proc EXCEPT ![p] = Idle]
      BY <2>6 DEF Diagnose, Verify, RetryRefused, MarkUncertain, Crash
    <3>2. \A c \in Cases : writes'[c] = "recorded" => writes[c] = "recorded"
      BY <2>0, <2>6 DEF Diagnose, Verify, RetryRefused, MarkUncertain, Crash, TypeOK
    <3> QED
      BY <3>1, <3>2, IdleType, RecordingStep
  <2>7. ASSUME NEW p \in Procs,
               \/ \E cmd \in Commands, c \in Cases : Start(p, cmd, c)
               \/ ReadJobs(p) \/ ReadPoints(p) \/ ReadFails(p)
               \/ CommitIntent(p) \/ ClearStandalone(p) \/ DatabaseFails(p)
        PROVE  Recording'
    <3>1. \E q : proc' = [proc EXCEPT ![p] = q] /\ q.pc \notin {"invoked", "recorded"}
      <4>1. ASSUME NEW cmd, NEW c, Start(p, cmd, c)
            PROVE  \E q : proc' = [proc EXCEPT ![p] = q] /\ q.pc \notin {"invoked", "recorded"}
        <5> DEFINE q == [pc |-> "account", cmd |-> cmd, case |-> c]
        <5>1. proc' = [proc EXCEPT ![p] = q] /\ q.pc = "account"
          BY <4>1 DEF Start
        <5> HIDE DEF q
        <5> QED
          BY <5>1
      <4>2. CASE ReadJobs(p)
        <5> DEFINE q == [pc |-> "jobs", cmd |-> proc[p].cmd, case |-> proc[p].case, jobs |-> jobs]
        <5>1. proc' = [proc EXCEPT ![p] = q] /\ q.pc = "jobs"
          BY <4>2 DEF ReadJobs
        <5> HIDE DEF q
        <5> QED
          BY <5>1
      <4>3. \A snap : Collected(p, snap).pc = "collected"
        BY DEF Collected
      <4>4. At(p, "cleared").pc = "cleared" /\ At(p, "raised").pc = "raised"
        BY DEF At
      <4> QED
        BY <2>7, <4>1, <4>2, <4>3, <4>4 DEF ReadPoints, ReadFails, CommitIntent,
           ClearStandalone, DatabaseFails
    <3>2. \A c \in Cases : writes'[c] = "recorded" => writes[c] = "recorded"
      BY <2>0, <2>7 DEF Start, ReadJobs, ReadPoints, ReadFails, CommitIntent, ClearStandalone,
                        DatabaseFails, TypeOK
    <3> QED
      BY <3>1, <3>2, RecordingStep
  <2>8. CASE Azure \/ \E c \in Cases, pt \in DOMAIN points : AttachDrill(c, pt)
    BY <2>1, <2>8 DEF Azure, ScheduledJob, JobCompletes, JobFails, AttachDrill
  <2>9. CASE UNCHANGED vars
    BY <2>1, <2>9 DEF vars
  <2> QED
    BY <2>2, <2>3, <2>4, <2>5, <2>6, <2>7, <2>8, <2>9 DEF Next, Command
<1> QED
  BY <1>1, <1>2, EvidenceInvariant, PTL DEF Spec

\* A write marked "recorded" is in the ledger, in a case that awaits the job
\* of that call, and that call was the only one: for any number of operators,
\* and whatever they recorded from files in between.
THEOREM RecordedIsAttempted == Spec => []RecordedMeansAttempted
<1>1. TypeInv /\ EvidenceInv /\ Recording /\ OneWritePerCase => RecordedMeansAttempted
  <2> SUFFICES ASSUME TypeInv, EvidenceInv, Recording, OneWritePerCase,
                      NEW c \in Cases, writes[c] = "recorded"
               PROVE  /\ cases[c].state \in {"awaiting_result", "verified"}
                      /\ cases[c].attempt.accepted /\ cases[c].attempt.job # NoJob
                      /\ invoked[c] = 1
    BY DEF RecordedMeansAttempted
  <2>1. cases[c].attempt # None /\ Answered(cases[c].attempt) /\ invoked[c] > 0
    BY DEF Recording
  <2>2. cases[c].state \in Awaited
    BY <2>1 DEF EvidenceInv, RowTrue
  <2>3. invoked[c] <= 1 /\ invoked[c] \in Nat
    BY DEF OneWritePerCase, TypeInv, TypeOK
  <2> QED
    BY <2>1, <2>2, <2>3 DEF Awaited, Answered
<1> QED
  BY <1>1, EvidenceInvariant, RecordingInvariant, WritesOnce, PTL

-----------------------------------------------------------------------------
\* The points of the job of an answered attempt are new to the evidence that
\* the attempt was planned from, and to `verify`.
LEMMA OwnPointIsNew ==
    ASSUME TypeInv, EvidenceInv, NEW c \in Cases, cases[c].state \in Awaited,
           NEW after \in Snapshot, Past(after, jobs, points),
           cases[c].attempt.job \in DOMAIN after.jobs,
           after.jobs[cases[c].attempt.job].status = "Completed"
    PROVE  \E pt \in NewPoints(cases[c].snapshot, after, cases[c].attempt) :
             points[pt].job = cases[c].attempt.job
<1> DEFINE a == cases[c].attempt
<1>1. /\ a # None /\ Answered(a) /\ Genuine(a, jobs, points) /\ a.plan = cases[c].snapshot
  BY DEF EvidenceInv, RowTrue
<1>2. PICK pt \in DOMAIN after.points : after.points[pt].job = a.job
  BY DEF Past, HavePoints
<1>3. pt \in DOMAIN points /\ points[pt] = after.points[pt]
  <2>1. /\ after.points \in Seq(Point) /\ points \in Seq(Point)
        /\ Len(after.points) <= Len(points) /\ points[pt] = after.points[pt]
    BY <1>2 DEF Past, Snapshot, TypeInv, TypeOK
  <2> QED
    BY <1>2, <2>1
<1>4. pt \notin DOMAIN a.plan.points /\ a.started <= points[pt].created
  BY <1>1, <1>2, <1>3 DEF Genuine
<1>5. a.started \in Nat /\ points[pt].created \in Nat
  <2>1. cases[c] \in Case /\ points[pt] \in Point
    BY <1>3 DEF TypeInv, TypeOK
  <2>2. a \in Attempt
    BY <1>1, <2>1 DEF Case
  <2> QED
    BY <2>1, <2>2 DEF Attempt, Point
<1>6. pt \in NewPoints(cases[c].snapshot, after, a)
  BY <1>1, <1>2, <1>3, <1>4, <1>5 DEF NewPoints
<1> QED
  BY <1>2, <1>3, <1>6

\* What the ledger says of a case in its last two states is so in Azure: the
\* job was started by a retry for this diagnosis, after the job that failed,
\* and a case is verified only if that very job completed.
THEOREM LedgerTellsTheTruth == Spec => []LedgerIsTrue
<1>1. TypeInv /\ EvidenceInv => LedgerIsTrue
  <2> SUFFICES ASSUME TypeInv, EvidenceInv PROVE LedgerIsTrue
    OBVIOUS
  <2>0. TypeOK /\ AzureRecord
    BY DEF TypeInv, EvidenceInv
  <2>1. ASSUME NEW c \in Cases, cases[c].state \in Awaited
        PROVE  /\ cases[c].attempt.job \in DOMAIN jobs
               /\ cases[c].attempt.job > LatestBackup(cases[c].snapshot)
               /\ cases[c].attempt.plan = cases[c].snapshot
               /\ cases[c].attempt.scope = ScopeOf[c]
    <3> DEFINE a == cases[c].attempt
               s == cases[c].snapshot
    <3>1. /\ Answered(a) /\ Genuine(a, jobs, points) /\ a.plan = s /\ a.scope = ScopeOf[c]
      BY <2>1 DEF EvidenceInv, RowTrue
    <3>2. s \in Snapshot
      BY <2>1 DEF TypeInv, RetryHasDiagnosis, Awaited
    <3>3. LatestBackup(s) \in DOMAIN s.jobs /\ s.jobs \in Seq(Job)
      <4>1. Past(s, jobs, points) /\ Candidate(s)
        BY <3>1 DEF Genuine
      <4> QED
        BY <2>0, <3>2, <4>1, LatestIsListed DEF Snapshot
    <3>4. a.job \in DOMAIN jobs /\ a.job \notin DOMAIN s.jobs
      BY <3>1 DEF Genuine
    <3>5. a.job > LatestBackup(s)
      <4>1. jobs \in Seq(Job)
        BY <2>0 DEF TypeOK
      <4> QED
        BY <3>3, <3>4, <4>1
    <3> QED
      BY <3>1, <3>4, <3>5
  <2>2. AwaitsARealJob
    BY <2>1 DEF AwaitsARealJob, Awaited
  <2>3. ASSUME NEW c \in Cases, cases[c].state = "verified"
        PROVE  /\ jobs[cases[c].attempt.job].status = "Completed"
               /\ \E pt \in NewPoints(cases[c].snapshot, cases[c].after, cases[c].attempt) :
                    points[pt].job = cases[c].attempt.job
    <3> DEFINE after == cases[c].after
               a == cases[c].attempt
    <3>1. after # None /\ Past(after, jobs, points) /\ JobCompleted(after, a)
      BY <2>3 DEF EvidenceInv, RowTrue, VerifiedBackup
    <3>2. after \in Snapshot
      <4>1. cases[c] \in Case
        BY <2>0 DEF TypeOK
      <4> QED
        BY <3>1, <4>1 DEF Case
    <3>3. a.job \in DOMAIN after.jobs /\ after.jobs[a.job].status = "Completed"
      BY <3>1 DEF JobCompleted
    <3>4. jobs[a.job].status = "Completed"
      BY <3>1, <3>3 DEF Past, JobsRead
    <3>5. cases[c].state \in Awaited
      BY <2>3 DEF Awaited
    <3>6. \E pt \in NewPoints(cases[c].snapshot, after, a) : points[pt].job = a.job
      BY <3>1, <3>2, <3>3, <3>5, OwnPointIsNew
    <3> QED
      BY <3>4, <3>6
  <2>4. VerifiedIsEarned
    BY <2>3 DEF VerifiedIsEarned
  <2> QED
    BY <2>2, <2>4 DEF LedgerIsTrue
<1> QED
  BY <1>1, EvidenceInvariant, PTL

\* No case is stuck: evidence of Azure as it is now verifies every case whose
\* job has completed, whatever else the vault's schedule did.
THEOREM DoneCanBeVerified == Spec => []DoneIsVerifiable
<1>1. TypeInv /\ EvidenceInv => DoneIsVerifiable
  <2> SUFFICES ASSUME TypeInv, EvidenceInv, NEW c \in Cases, cases[c].state = "awaiting_result",
                      jobs[cases[c].attempt.job].status = "Completed"
               PROVE  VerifiedBackup(cases[c].snapshot, Evidence(jobs, points), cases[c].attempt)
    BY DEF DoneIsVerifiable
  <2> DEFINE a == cases[c].attempt
             now == Evidence(jobs, points)
  <2>1. jobs \in Seq(Job) /\ points \in Seq(Point) /\ AzureRecord
    BY DEF TypeInv, TypeOK, EvidenceInv
  <2>2. cases[c].state \in Awaited
    BY DEF Awaited
  <2>3. Answered(a) /\ Genuine(a, jobs, points) /\ a.plan = cases[c].snapshot
    BY <2>2 DEF EvidenceInv, RowTrue
  <2>4. a.job \in DOMAIN jobs /\ a.started <= jobs[a.job].started /\ Candidate(cases[c].snapshot)
    BY <2>3 DEF Genuine
  <2>5. now \in Snapshot /\ now.observed /\ now.jobs = jobs /\ now.points = points
    BY <2>1, EvidenceType DEF Evidence
  <2> HIDE DEF now
  <2>6. Past(now, jobs, points)
    <3>1. JobsRead(jobs, jobs) /\ HavePoints(jobs, points)
      BY <2>1 DEF JobsRead, HavePoints, AzureRecord
    <3> QED
      BY <2>1, <2>5, <3>1 DEF Past
  <2>7. NewPoints(cases[c].snapshot, now, a) # {}
    BY <2>2, <2>4, <2>5, <2>6, OwnPointIsNew
  <2>8. JobCompleted(now, a)
    <3>1. a \in Attempt /\ jobs[a.job] \in Job
      <4>1. a # None /\ cases[c] \in Case
        BY <2>2 DEF EvidenceInv, RowTrue, TypeInv, TypeOK
      <4> QED
        BY <2>1, <2>4, <4>1 DEF Case
    <3>2. a.started \in Nat /\ jobs[a.job].started \in Nat
      BY <3>1 DEF Attempt, Job
    <3> QED
      BY <2>4, <2>5, <3>2 DEF JobCompleted
  <2>9. VerifiedBackup(cases[c].snapshot, now, a)
    BY <2>3, <2>4, <2>5, <2>7, <2>8 DEF VerifiedBackup, Answered, Candidate
  <2> QED
    BY <2>9 DEF now
<1> QED
  BY <1>1, EvidenceInvariant, PTL
=============================================================================
