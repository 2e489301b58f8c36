-------------------------- MODULE PairedBenchmark --------------------------
(***************************************************************************)
(* The scorecard of a paired benchmark: ai_service_operator.evaluate.  Two *)
(* runs, of a baseline and of a candidate, answer the same scenarios; a    *)
(* scenario ends in one of a few ways for each.  The order of the events   *)
(* is of no account, so that a run is a tally of the ways they ended in.   *)
(***************************************************************************)
EXTENDS Integers, FiniteSets, FiniteSetsExt, Rounding

CONSTANTS
    Ends,           \* ways a request may end, by name
    End,            \* each as [ok, accepted, latency, cost]; latency is 0 unless ok
    BaselineEnds,   \* those of the baseline
    Fixed,          \* GPU and other fixed cost of a run
    Score,          \* the targets: [requests, success, acceptance, latency, cost]
    MaxScenarios    \* bound of the model

\* What validate_contract and _events refuse otherwise: a failed request is not
\* accepted, and costs and targets are not negative.
ASSUME BenchmarkAssumption ==
    /\ IsFiniteSet(Ends) /\ BaselineEnds \subseteq Ends
    /\ End \in [Ends -> [ok : BOOLEAN, accepted : BOOLEAN, latency : Nat, cost : Nat]]
    /\ \A e \in Ends : End[e].accepted => End[e].ok
    /\ Fixed \in Nat /\ MaxScenarios \in Nat
    /\ Score \in [requests : Nat, success : Nat, acceptance : Nat, latency : Nat, cost : Nat]

VARIABLE runs       \* [baseline, candidate], tallied

Run == [Ends -> Nat]

BenchmarkTypeOK == runs \in [baseline : Run, candidate : Run]

BenchmarkInit == runs = [baseline |-> [e \in Ends |-> 0], candidate |-> [e \in Ends |-> 0]]

In(run, S) == SumOver(run, S)
Requests(run) == In(run, Ends)

\* A scenario answered by both.
Answer(b, c) ==
    /\ Requests(runs.candidate) < MaxScenarios
    /\ runs' = [runs EXCEPT !.baseline[b] = @ + 1, !.candidate[c] = @ + 1]

BenchmarkNext == \E b \in BaselineEnds, c \in Ends : Answer(b, c)

BenchmarkSpec == BenchmarkInit /\ [][BenchmarkNext]_runs

-----------------------------------------------------------------------------
(* _summary and evaluate *)

Ok == {e \in Ends : End[e].ok}
Succeeded(run) == In(run, Ok)
AcceptedOf(run) == In(run, {e \in Ends : End[e].accepted})

\* _total_cost
Cost(run) == Fixed + SumOver([e \in Ends |-> run[e] * End[e].cost], Ends)

\* Mutant: math.floor for math.ceil.
Rank_Floor(n) == (95 * n) \div 100

\* math.ceil(0.95 * n)
Rank(n) == (95 * n + 99) \div 100

\* _p95 of the latencies of the successful requests: the nearest rank.
NearestP95(run) ==
    Min({End[e].latency : e \in {f \in Ok :
            In(run, {g \in Ok : End[g].latency <= End[f].latency}) >= Rank(Succeeded(run))}})

\* The gates on cost per accepted result, multiplied out.  There is none
\* without accepted work, of either run.
CostGates(b, c) ==
    /\ AcceptedOf(c) > 0 /\ AcceptedOf(b) > 0
    /\ Cost(c) <= Score.cost * AcceptedOf(c)
    /\ Cost(c) * AcceptedOf(b) <= Cost(b) * AcceptedOf(c)

\* all(gates.values()); time to first token is gated as latency is.
Eligible(b, c) ==
    /\ Requests(c) >= Score.requests
    /\ 100 * Succeeded(c) >= Score.success * Requests(c)
    /\ 100 * AcceptedOf(c) >= Score.acceptance * Requests(c)
    /\ Succeeded(c) > 0 /\ NearestP95(c) <= Score.latency
    /\ CostGates(b, c)
    /\ AcceptedOf(c) >= AcceptedOf(b)

-----------------------------------------------------------------------------
(* Properties *)

IsEligible == Requests(runs.candidate) > 0 /\ Eligible(runs.baseline, runs.candidate)

\* A slow candidate is never eligible: of its successful requests no more
\* than one in twenty took longer than the target.
SlowIsRare ==
    IsEligible =>
        20 * In(runs.candidate, {e \in Ok : End[e].latency > Score.latency})
            <= Succeeded(runs.candidate)

\* Eligible for cause: a slow candidate never is, and a scenario the baseline
\* serves, no dearer than its others, and the candidate fails never turns a hold
\* into a candidate that may be reviewed.  (A run still short of requests, or a
\* baseline that spends more on its failures, does turn it.)
EligibleForCause ==
    [][LET b == runs.baseline
           failing == In(runs.candidate, Ok) = In(runs'.candidate, Ok)
           served == AcceptedOf(b) > 0 /\ AcceptedOf(runs'.baseline) > AcceptedOf(b)
                       /\ Cost(runs'.baseline) * AcceptedOf(b) <= Cost(b) * AcceptedOf(runs'.baseline)
       IN  /\ SlowIsRare'
           /\ Requests(runs.candidate) >= Score.requests /\ failing /\ served /\ IsEligible'
                => IsEligible]_runs
=============================================================================
