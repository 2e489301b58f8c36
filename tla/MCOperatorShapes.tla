-------------------------- MODULE MCOperatorShapes --------------------------
(***************************************************************************)
(* Two shapes of behaviour in one run, bounded in different ways: processes *)
(* race on one case while Azure runs one more job, or one process at a time *)
(* works on two cases of two incidents while Azure runs MaxJobs.           *)
(***************************************************************************)
EXTENDS MCResolutionOperator, FiniteSets

VARIABLE shape

RaceJobs == 2

Working == {p \in Procs : proc[p] # Idle}

InShape ==
    \/ /\ shape = "race"
       /\ cases[c2].state = "received" /\ \A p \in Working : proc[p].case = c1
       /\ Len(jobs) <= RaceJobs
    \/ shape = "incidents" /\ Cardinality(Working) <= 1

ShapedInit == Init /\ shape \in {"race", "incidents"}
ShapedSpec == ShapedInit /\ [][Next /\ UNCHANGED shape /\ InShape']_<<vars, shape>>
=============================================================================
