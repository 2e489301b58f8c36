------------------------ MODULE MCResolutionOperator ------------------------
(***************************************************************************)
(* Small instances of ResolutionOperator.  Two processes race on one case; *)
(* two cases of the VM meet its failed job; three jobs are the failed one, *)
(* a retry, and one of the schedule or a second retry.                     *)
(***************************************************************************)
EXTENDS ResolutionOperator, TLC

CONSTANTS c1, c2, p1, p2, incident1, incident2

\* Two alerts of one incident.
OneScope == [c \in Cases |-> incident1]

\* Two incidents of the VM, in one database.
TwoScopes == [c \in Cases |-> IF c = c1 THEN incident1 ELSE incident2]

ProcSymmetry == Permutations(Procs)
CaseAndProcSymmetry == Permutations(Procs) \cup Permutations(Cases)
=============================================================================
