--------------------------- MODULE InferenceFleet ---------------------------
(***************************************************************************)
(* Plans, releases and rollbacks of the inference workload of an order:    *)
(* inference_fleet.py and its CLI.  A plan and a decision are files an     *)
(* operator names on the command line; what serves is the cluster's, which *)
(* keeps the revisions of a Deployment, the serving one last.              *)
(*                                                                         *)
(* The docs leave it to the operator to confirm that a decision is about   *)
(* the active release (docs/inference-fleet.md): a step of its own, before *)
(* the command that reads the decision and calls kubectl.                  *)
(***************************************************************************)
EXTENDS Integers, Sequences, SequencesExt

CONSTANTS
    Workloads,      \* orders, each with its model: <<order, model>>
    Images,         \* pinned images with their model revision
    Measured,       \* what a benchmark of each image measures
    Goal,           \* the targets in the evidence
    Crew,           \* operators
    Nothing         \* no file, or nothing confirmed

\* The command refuses evidence with anything but numbers.
ASSUME MeasuredAssumption ==
    \A i \in Images : {Measured[i].success, Measured[i].cost, Measured[i].tokens} \subseteq Int

Release == [model : {w[2] : w \in Workloads}, image : Images]

VARIABLES
    plan,           \* the plan file
    rollout,        \* revisions of each order's Deployment
    decision,       \* the decision file
    confirmed       \* the decision each operator is about to act on

fleetVars == <<plan, rollout, decision, confirmed>>

Plan == [order : Workloads, model : {w[2] : w \in Workloads}, image : Images]
Decision == [order : Workloads, verdict : {"eligible_for_operator_review", "rollback_required"},
             about : Release, against : Release]

FleetTypeOK ==
    /\ plan \in Plan \cup {Nothing}
    /\ rollout \in [Workloads -> Seq(Release)]
    /\ decision \in Decision \cup {Nothing}
    /\ confirmed \in [Crew -> Decision \cup {Nothing}]

FleetInit ==
    /\ plan = Nothing
    /\ rollout = [w \in Workloads |-> <<>>]
    /\ decision = Nothing
    /\ confirmed = [c \in Crew |-> Nothing]

-----------------------------------------------------------------------------
(* Plans *)

\* deployment_plan for a requested or active order: its own model.
WritePlan(w, i) ==
    /\ plan' = [order |-> w, model |-> w[2], image |-> i]
    /\ UNCHANGED <<rollout, decision, confirmed>>

\* The Deployment is named after the order.
Deployment(w) == w

\* It has one revision of each template.
Without(h, r) ==
    IF Contains(h, r) THEN RemoveAt(h, CHOOSE i \in 1..Len(h) : h[i] = r) ELSE h

\* kubectl apply: a template the Deployment had before becomes the newest
\* revision again; revisionHistoryLimit keeps two old ones.
Applied(h, r) ==
    LET all == Append(Without(h, r), r)
    IN  SubSeq(all, IF Len(all) > 3 THEN Len(all) - 2 ELSE 1, Len(all))

\* An acknowledged `apply` with the namespace of the plan.
ApplyPlan ==
    /\ plan # Nothing
    /\ rollout' = [rollout EXCEPT ![Deployment(plan.order)] =
                     Applied(@, [model |-> plan.model, image |-> plan.image])]
    /\ UNCHANGED <<plan, decision, confirmed>>

-----------------------------------------------------------------------------
(* Release decisions *)

\* GPU cost of a token, compared by multiplying out: a.cost / a.tokens.
NoDearer(a, b) == a.cost * b.tokens <= b.cost * a.tokens

Met(m) ==
    /\ m.requests >= Goal.requests
    /\ m.success >= Goal.success
    /\ m.latency <= Goal.latency
    /\ m.ttft <= Goal.ttft
    /\ NoDearer(m, [cost |-> Goal.cost, tokens |-> 1])

\* evaluate_release: the targets, and no regression.
Passes(baseline, candidate) ==
    /\ Met(candidate)
    /\ candidate.success >= baseline.success
    /\ NoDearer(candidate, baseline)

\* Two releases of an order were measured, and the evidence is evaluated.
EvaluateRelease(w, b, c) ==
    /\ decision' =
         [order |-> w, about |-> c, against |-> b,
          verdict |-> IF Passes(Measured[b.image], Measured[c.image])
                      THEN "eligible_for_operator_review" ELSE "rollback_required"]
    /\ UNCHANGED <<plan, rollout, confirmed>>

-----------------------------------------------------------------------------
(* Rollback *)

Serving(w) == rollout[w][Len(rollout[w])]

\* The operator sees that the decision is about the release that serves.
Confirm(c) ==
    /\ decision # Nothing /\ confirmed[c] = Nothing
    /\ decision.about = Serving(decision.order)
    /\ confirmed' = [confirmed EXCEPT ![c] = decision]
    /\ UNCHANGED <<plan, rollout, decision>>

\* Mutant: any decision is good enough.
MayUndo_AnyDecision == decision # Nothing

\* What `rollback` checks of the file it reads.
MayUndo == decision # Nothing /\ decision.verdict = "rollback_required"

\* kubectl rollout undo: the last but one revision becomes the newest.
Undone(h) == Append(Without(h, h[Len(h) - 1]), h[Len(h) - 1])

\* An acknowledged `rollback`; kubectl fails where there is no revision to
\* go back to.
Rollback(c) ==
    /\ confirmed[c] # Nothing
    /\ MayUndo
    /\ rollout' = [rollout EXCEPT ![Deployment(decision.order)] =
                     IF Len(@) < 2 THEN @ ELSE Undone(@)]
    /\ confirmed' = [confirmed EXCEPT ![c] = Nothing]
    /\ UNCHANGED <<plan, decision>>

\* The operator drops it, or the command refuses.
GiveUp(c) ==
    /\ confirmed[c] # Nothing
    /\ confirmed' = [confirmed EXCEPT ![c] = Nothing]
    /\ UNCHANGED <<plan, rollout, decision>>

Releases(w) == {rollout[w][i] : i \in DOMAIN rollout[w]}

FleetNext ==
    \/ \E w \in Workloads : \/ \E i \in Images : WritePlan(w, i)
                            \/ \E b, c \in Releases(w) : EvaluateRelease(w, b, c)
    \/ ApplyPlan
    \/ \E c \in Crew : Confirm(c) \/ Rollback(c) \/ GiveUp(c)

FleetSpec == FleetInit /\ [][FleetNext]_fleetVars

-----------------------------------------------------------------------------
(* Properties *)

\* Whatever was applied and undone, and in whichever order, the Deployment of
\* an order has only ever had the model of that order.
OrderBound == \A w \in Workloads : \A r \in Releases(w) : r.model = w[2]

\* A release is undone for cause: when what the operator confirmed is still
\* the case, it served, it missed a target or fell behind what it was
\* measured against, and it serves no more.  (Two operators who confirmed the
\* same decision undo twice and bring the rejected release back.)
UndoneForCause ==
    [][/\ OrderBound'
       /\ \A c \in Crew, w \in Workloads :
             /\ confirmed[c] # Nothing /\ confirmed'[c] = Nothing
             /\ confirmed[c] = decision /\ decision.order = w
             /\ rollout'[w] # rollout[w] /\ Serving(w) = decision.about
             => LET new == Measured[decision.about.image]
                    old == Measured[decision.against.image]
                IN  /\ Serving(w)' # decision.about
                    /\ \/ ~Met(new)
                       \/ new.success < old.success
                       \/ new.cost * old.tokens > old.cost * new.tokens]_fleetVars
=============================================================================
