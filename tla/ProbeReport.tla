---------------------------- MODULE ProbeReport ----------------------------
(***************************************************************************)
(* The report managed_ai.monthly_report makes of the probes of one         *)
(* service in one month.  The report sorts the samples, so `rows` is a     *)
(* tally: how many passed samples there are of each latency, and how many  *)
(* failed ones.  `t` holds the targets of the service.                     *)
(*                                                                         *)
(* Latencies are hundredths of a millisecond and the target is hundredths  *)
(* of a percent, the precision of the code's round(x, 2).  The gate on     *)
(* time to first token is the latency gate over another column.            *)
(***************************************************************************)
EXTENDS Rounding, FiniteSetsExt

\* minimum_samples_per_month, minimum_sample_success_pct, maximum_p95_latency_ms
Targets == [samples : Nat \ {0}, rate : 1..10000, p95 : Nat \ {0}]

Tally(L) == [passed : [L -> Nat], failed : Nat]

Count(rows, L) == MapThenSumSet(LAMBDA l : rows.passed[l], L)
Successes(rows) == Count(rows, DOMAIN rows.passed)
Samples(rows) == Successes(rows) + rows.failed

\* The element at index k of the sorted latencies of the passed samples.
Ranked(rows, k) ==
    Min({l \in DOMAIN rows.passed : Count(rows, {m \in DOMAIN rows.passed : m <= l}) > k})

\* Mutant: failed rows count as measured in no time.
P95_OfAllRows(rows) ==
    LET k == (19 * (Samples(rows) - 1)) \div 20
    IN  IF k < rows.failed THEN 0 ELSE Ranked(rows, k - rows.failed)

\* The value at (n - 1) * 0.95, between its neighbours when that is no index.
P95(rows) ==
    LET twentieths == 19 * (Successes(rows) - 1)
        low == Ranked(rows, twentieths \div 20)
        high == Ranked(rows, (twentieths + 19) \div 20)
    IN  RoundHalfEven(20 * low + (high - low) * (twentieths % 20), 20)

\* sample_success_pct
Rate(rows) == RoundHalfEven(10000 * Successes(rows), Samples(rows))

Covered(rows, t) == Samples(rows) >= t.samples
RateMet(rows, t) == Samples(rows) > 0 /\ Rate(rows) >= t.rate
LatencyMet(rows, t) == Successes(rows) > 0 /\ P95(rows) <= t.p95

Status(rows, t) ==
    IF Samples(rows) = 0 THEN "unknown"
    ELSE IF ~Covered(rows, t) THEN "insufficient_data"
    ELSE IF RateMet(rows, t) /\ LatencyMet(rows, t) THEN "met"
    ELSE "attention"
=============================================================================
