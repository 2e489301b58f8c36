----------------------------- MODULE ManagedAi -----------------------------
(***************************************************************************)
(* Probes of one managed inference service in one month, as one-shot       *)
(* commands record them.  A probe that ends in an exception `probe` does   *)
(* not list (say, http.client.IncompleteRead of a stream that is cut off)  *)
(* reaches no INSERT: it is no step here.                                  *)
(***************************************************************************)
EXTENDS ProbeReport

CONSTANTS
    Latencies,      \* latencies a probe may measure
    Target,         \* the targets in the service definition
    MaxProbes       \* bound of the model

ASSUME TargetAssumption ==
    Latencies \subseteq Nat /\ IsFiniteSet(Latencies) /\ Target \in Targets /\ MaxProbes \in Nat

VARIABLE probes     \* the table, tallied

NoProbes == [passed |-> [l \in Latencies |-> 0], failed |-> 0]

ProbeTypeOK == probes \in Tally(Latencies)

ProbeInit == probes = NoProbes

\* The stream ended with output.
ProbePasses(l) ==
    /\ Samples(probes) < MaxProbes
    /\ probes' = [probes EXCEPT !.passed[l] = @ + 1]

\* URLError, OSError, TimeoutError or ValueError: recorded with ok = 0.
ProbeFails ==
    /\ Samples(probes) < MaxProbes
    /\ probes' = [probes EXCEPT !.failed = @ + 1]

ProbeNext == (\E l \in Latencies : ProbePasses(l)) \/ ProbeFails

ProbeSpec == ProbeInit /\ [][ProbeNext]_probes

-----------------------------------------------------------------------------
(* Properties *)

\* Passed samples slower than the target.
Slow == Count(probes, {l \in Latencies : l > Target.p95})

\* "Met" is earned by the rows there are: enough of them, a share of passed
\* ones that rounds to the target, and no more slow ones among the passed
\* than the twentieth that a 95th percentile leaves out, rounded up.
MetIsEarned ==
    Status(probes, Target) = "met" =>
        /\ Samples(probes) >= Target.samples
        /\ 2 * 10000 * Successes(probes) + Samples(probes) >= 2 * Target.rate * Samples(probes)
        /\ 20 * Slow <= (Successes(probes) - 1) + 19

\* A failing service is never praised: "met" is earned, and a recorded failure
\* turns no "attention" into it.
PraiseIsEarned ==
    [][/\ MetIsEarned'
       /\ probes'.failed > probes.failed /\ Status(probes, Target) = "attention"
            => Status(probes', Target) # "met"]_probes
=============================================================================
