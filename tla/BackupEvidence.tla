--------------------------- MODULE BackupEvidence ---------------------------
(***************************************************************************)
(* The decisions of backup_resolution.py over backup evidence of one VM:   *)
(* what a snapshot says is wrong (`propose`) and whether a later snapshot  *)
(* shows that a retry worked (`verify`).                                   *)
(*                                                                         *)
(* A job id and a recovery point id are positions in the vault's history.  *)
(* The field `job` of a point says which job made it: Azure does not list  *)
(* it, and no decision below reads it.                                     *)
(***************************************************************************)
EXTENDS Naturals, Sequences

NoJob == 0

JobStates == {"InProgress", "Failed", "Completed"}
Job == [status : JobStates, started : Nat]
Point == [job : Nat \ {0}, created : Nat]

\* What collect_snapshot returns.  A failed or unverified read reports no jobs.
Snapshot == [observed : BOOLEAN, account : BOOLEAN, jobs : Seq(Job), points : Seq(Point)]


\* max(jobs, key=started_at): the first of the latest.
LatestBackup(s) ==
    CHOOSE j \in DOMAIN s.jobs :
        /\ \A k \in DOMAIN s.jobs : s.jobs[k].started <= s.jobs[j].started
        /\ \A k \in 1..(j - 1) : s.jobs[k].started < s.jobs[j].started

\* propose(s)["action"] = "backup_now_candidate"
Candidate(s) ==
    /\ s.observed
    /\ s.jobs # <<>>
    /\ s.jobs[LatestBackup(s)].status = "Failed"

\* Both the operator and retry_backup require of fresh evidence that it is of
\* the right account and still proposes a retry of the same failed job.
StillFails(plan, fresh) ==
    /\ fresh.account
    /\ Candidate(fresh)
    /\ LatestBackup(fresh) = LatestBackup(plan)

\* The points `verify` calls new.
NewPoints(before, after, attempt) ==
    {p \in DOMAIN after.points : /\ p \notin DOMAIN before.points
                                 /\ after.points[p].created >= attempt.started}

JobCompleted(after, attempt) ==
    /\ attempt.job \in DOMAIN after.jobs
    /\ after.jobs[attempt.job].status = "Completed"
    /\ after.jobs[attempt.job].started >= attempt.started

\* verify(...)["status"] = "verified_backup"
VerifiedBackup(before, after, attempt) ==
    /\ before.observed /\ after.observed
    /\ attempt.accepted /\ attempt.job # NoJob
    /\ NewPoints(before, after, attempt) # {}
    /\ JobCompleted(after, attempt)
=============================================================================
