--------------------------- MODULE CaseLifecycle ----------------------------
(***************************************************************************)
(* What the case ledger promises, whoever calls it and in whatever order:  *)
(* a case moves received -> diagnosed -> awaiting_result -> verified, or   *)
(* leaves for needs_review, and the evidence of each move is written once, *)
(* with the move, and never again.                                         *)
(***************************************************************************)
CONSTANTS Cases, None

VARIABLES
    state,      \* the state column of each case
    diagnosis,  \* the snapshot it was diagnosed from, or None
    attempt,    \* the retry recorded for it, or None
    closing     \* the snapshot that verified it, or None

vars == <<state, diagnosis, attempt, closing>>

Init ==
    /\ state = [c \in Cases |-> "received"]
    /\ diagnosis = [c \in Cases |-> None]
    /\ attempt = [c \in Cases |-> None]
    /\ closing = [c \in Cases |-> None]

Diagnose(c, next) ==
    /\ state[c] = "received"
    /\ next \in {"diagnosed", "needs_review"}
    /\ state' = [state EXCEPT ![c] = next]
    /\ diagnosis'[c] # None /\ diagnosis' = [diagnosis EXCEPT ![c] = diagnosis'[c]]
    /\ UNCHANGED <<attempt, closing>>

RecordAttempt(c, next) ==
    /\ state[c] = "diagnosed"
    /\ next \in {"awaiting_result", "needs_review"}
    /\ state' = [state EXCEPT ![c] = next]
    /\ attempt'[c] # None /\ attempt' = [attempt EXCEPT ![c] = attempt'[c]]
    /\ UNCHANGED <<diagnosis, closing>>

Close(c) ==
    /\ state[c] = "awaiting_result"
    /\ state' = [state EXCEPT ![c] = "verified"]
    /\ closing'[c] # None /\ closing' = [closing EXCEPT ![c] = closing'[c]]
    /\ UNCHANGED <<diagnosis, attempt>>

Next ==
    \E c \in Cases :
        \/ \E s \in {"diagnosed", "needs_review"} : Diagnose(c, s)
        \/ \E s \in {"awaiting_result", "needs_review"} : RecordAttempt(c, s)
        \/ Close(c)

Spec == Init /\ [][Next]_vars
=============================================================================
