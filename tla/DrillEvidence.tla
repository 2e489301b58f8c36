--------------------------- MODULE DrillEvidence ---------------------------
(***************************************************************************)
(* Application-level recovery drills: probe and evaluate of                *)
(* recovery_operator.py.  The crew restores an isolated environment,       *)
(* probes the application there and cleans up, writing what they did and   *)
(* when into the restore file; the probe command writes a file of its own, *)
(* which stays where it is when the next drill begins.  Times are in ticks *)
(* of a fraction of a second.                                              *)
(***************************************************************************)
EXTENDS Integers

CONSTANTS
    TicksPerSecond,
    RtoSeconds, RpoSeconds,     \* the contract's minutes, in seconds
    Never,                      \* a time that is not there, or no file
    MaxTicks, MaxDrills         \* bounds of the model

ASSUME ClockAssumption == TicksPerSecond \in Nat \ {0} /\ RtoSeconds \in Int /\ RpoSeconds \in Int

VARIABLES
    ticks,          \* the clock
    restore,        \* restore evidence: [point, started, restored, cleaned]
    answer,         \* the probe file: [checked, passed]
    result,         \* the report of the last evaluation
    drills, probed  \* history: drills begun, and the one whose environment the
                    \* probe in the file met (0: none)

drillVars == <<ticks, restore, answer, result, drills, probed>>

EvidenceInit ==
    /\ ticks = 0
    /\ restore = Never /\ answer = Never /\ result = Never
    /\ drills = 0 /\ probed = 0

PassTick ==
    /\ ticks < MaxTicks
    /\ ticks' = ticks + 1
    /\ UNCHANGED <<restore, answer, result, drills, probed>>

\* The isolated environment answers.
Standing == restore # Never /\ restore.restored # Never /\ restore.cleaned = Never

BeginDrill(point) ==
    /\ drills < MaxDrills
    /\ restore # Never => restore.cleaned # Never
    /\ restore' = [point |-> point, started |-> ticks, restored |-> Never, cleaned |-> Never]
    /\ drills' = drills + 1
    /\ result' = Never
    /\ UNCHANGED <<ticks, answer, probed>>

\* A restore takes time.
FinishRestore ==
    /\ restore # Never /\ restore.restored = Never /\ restore.started < ticks
    /\ restore' = [restore EXCEPT !.restored = ticks]
    /\ UNCHANGED <<ticks, answer, result, drills, probed>>

\* One GET, at any time: it fails where nothing is restored, and may fail there.
\* The code stamps checked_at once it has the answer; the two are one step here,
\* as a cleanup in between would only date the answer too late to pass, and no
\* drill is as short as a GET.
ProbeApplication(passed) ==
    /\ passed => Standing
    /\ answer' = [checked |-> ticks, passed |-> passed]
    /\ probed' = IF Standing THEN drills ELSE 0
    /\ UNCHANGED <<ticks, restore, result, drills>>

CleanUp ==
    /\ Standing
    /\ restore' = [restore EXCEPT !.cleaned = ticks]
    /\ UNCHANGED <<ticks, answer, result, drills, probed>>

-----------------------------------------------------------------------------
(* evaluate *)

\* Mutant: the probe is only asked to be before the cleanup.
Ordered_ProbeLate ==
    /\ restore.point <= restore.started /\ restore.started <= restore.restored
    /\ answer.checked <= restore.cleaned

Ordered ==
    /\ restore.point <= restore.started /\ restore.started <= restore.restored
    /\ restore.restored <= answer.checked /\ answer.checked <= restore.cleaned

\* math.ceil(total_seconds())
Seconds(t) == (t + TicksPerSecond - 1) \div TicksPerSecond

\* A restore file with all its fields, a probe of the contract's URL.
EvaluateEvidence ==
    /\ restore # Never /\ restore.restored # Never /\ restore.cleaned # Never
    /\ answer # Never
    /\ Ordered
    /\ result' = [passed |-> /\ answer.passed
                             /\ Seconds(answer.checked - restore.started) <= RtoSeconds
                             /\ Seconds(restore.started - restore.point) <= RpoSeconds,
                  rto |-> IF answer.passed THEN Seconds(answer.checked - restore.started) ELSE Never]
    /\ UNCHANGED <<ticks, restore, answer, drills, probed>>

EvidenceNext ==
    \/ PassTick
    \/ \E point \in 0..ticks : BeginDrill(point)
    \/ FinishRestore
    \/ \E passed \in BOOLEAN : ProbeApplication(passed)
    \/ CleanUp
    \/ EvaluateEvidence

EvidenceSpec == EvidenceInit /\ [][EvidenceNext]_drillVars

-----------------------------------------------------------------------------
(* Properties *)

\* A drill that passes has earned it.  "A fractional second cannot make a
\* threshold pass": the exact times, too, are within the objectives.  And it was
\* probed itself: the answer that counts came from the environment of this drill,
\* not from an earlier one whose probe file was left behind.
PassIsEarned ==
    [][result' # Never /\ result' # result /\ result'.passed =>
         /\ answer.checked - restore.started <= RtoSeconds * TicksPerSecond
         /\ restore.started - restore.point <= RpoSeconds * TicksPerSecond
         /\ probed = drills]_drillVars
=============================================================================
