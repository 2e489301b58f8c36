--------------------------- MODULE ChangeRollout ---------------------------
(***************************************************************************)
(* A change exposed ring by ring: change_assurance.py and its CLI.  The    *)
(* observations of the rings are added to a file, late ones and repeated   *)
(* ones too; the command may be run again after any of them.               *)
(***************************************************************************)
EXTENDS Integers, Sequences, SequencesExt

CONSTANTS
    Changes,            \* change contracts: [production, rings, verified, rollback, operations]
    RingMeasures,       \* what a ring may measure: [latency, errors, success]
    Health,             \* the limits of the contract, likewise
    ChangeApprovers,    \* required_approvers
    NoRing,             \* halted_at is None
    NoVerdict,          \* no report yet
    MaxObservations     \* bound of the model

ASSUME RingAssumption == \A c \in Changes : c.rings \in Seq(STRING)

VARIABLES
    change,         \* the contract
    observations,   \* the file: [ring, measured]
    verdict,        \* the report of the last command
    judged          \* history: how many observations it had seen

changeVars == <<change, observations, verdict, judged>>

ChangeInit ==
    /\ change \in Changes
    /\ observations = <<>>
    /\ verdict = NoVerdict
    /\ judged = 0

Rings == {change.rings[i] : i \in DOMAIN change.rings}

Observe(ring, m) ==
    /\ Len(observations) < MaxObservations
    /\ observations' = Append(observations, [ring |-> ring, measured |-> m])
    /\ UNCHANGED <<change, verdict, judged>>

\* validate_contract raises nothing (without rings, an IndexError or a
\* promotion of nothing: `Changes` has none such).
Valid(approvals) ==
    /\ change.operations # {} /\ "delete" \notin change.operations
    /\ change.production => change.rings[1] # "production" /\ "production" \in Rings
    /\ IsInjective(change.rings)
    /\ change.verified /\ change.rollback
    /\ ChangeApprovers \subseteq approvals

WithinLimits(m) ==
    m.latency <= Health.latency /\ m.errors <= Health.errors /\ m.success >= Health.success

Of(ring) == {i \in DOMAIN observations : observations[i].ring = ring}

\* The ring was observed, and its last observation is within the limits.
Promotable(ring) ==
    \E i \in Of(ring) : (\A j \in Of(ring) : j <= i) /\ WithinLimits(observations[i].measured)

\* Mutant: the loop goes on after a halt.
Halting_Last ==
    {i \in DOMAIN change.rings : /\ ~Promotable(change.rings[i])
                                 /\ \A j \in (i + 1)..Len(change.rings) : Promotable(change.rings[j])}

\* Where the loop over exposure_rings breaks.
Halting ==
    {i \in DOMAIN change.rings : /\ ~Promotable(change.rings[i])
                                 /\ \A j \in 1..(i - 1) : Promotable(change.rings[j])}

EvaluateRollout(approvals) ==
    /\ Valid(approvals)
    /\ verdict' = IF Halting = {} THEN [halted_at |-> NoRing, promoted |-> change.rings]
                  ELSE LET i == CHOOSE i \in Halting : TRUE
                       IN  [halted_at |-> change.rings[i],
                            promoted |-> SubSeq(change.rings, 1, i - 1)]
    /\ judged' = Len(observations)
    /\ UNCHANGED <<change, observations>>

ChangeNext ==
    \/ \E ring \in Rings, m \in RingMeasures : Observe(ring, m)
    \/ \E a \in SUBSET ChangeApprovers : EvaluateRollout(a)

ChangeSpec == ChangeInit /\ [][ChangeNext]_changeVars

-----------------------------------------------------------------------------
(* Properties *)

Place(ring) == CHOOSE i \in DOMAIN change.rings : change.rings[i] = ring

\* Production is earned: a production change is promoted there only behind
\* another ring, and by what was last known of every ring up to it.
ProductionEarned ==
    verdict # NoVerdict /\ change.production /\ Contains(verdict.promoted, "production") =>
        /\ Place("production") > 1
        /\ \A i \in 1..Place("production") :
             \E k \in 1..judged :
                /\ observations[k].ring = change.rings[i]
                /\ WithinLimits(observations[k].measured)
                /\ \A l \in (k + 1)..judged : observations[l].ring # change.rings[i]

\* A change is promoted for cause: production is earned, and nothing that is
\* observed behind the ring at which the change was halted, in whichever order
\* it comes in, releases the halt.
PromotedForCause ==
    [][/\ ProductionEarned'
       /\ /\ verdict # NoVerdict /\ verdict'.halted_at # verdict.halted_at
          /\ verdict.halted_at # NoRing
          => \E k \in (judged + 1)..judged' :
               Place(observations[k].ring) <= Place(verdict.halted_at)]_<<verdict, judged>>
=============================================================================
