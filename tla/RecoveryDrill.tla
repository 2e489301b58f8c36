--------------------------- MODULE RecoveryDrill ---------------------------
(***************************************************************************)
(* The evaluation of a recovery drill: recovery.py and its CLI, over the   *)
(* contract DependencyOrder walks.  The events are the file the drill's    *)
(* crew wrote: one per recovered component, or several when it was tried   *)
(* again.  Minutes are counted from the start of the drill.                *)
(***************************************************************************)
EXTENDS DependencyOrder, FiniteSetsExt

CONSTANTS
    DrillFiles,         \* event files: sequences of [component, started, completed, age, valid]
    Rto, Rpo,           \* objectives, in minutes
    DrillContract,      \* [isolated, failover]: isolated network required, failover allowed
    DrillApprovers,     \* required_approvers
    NoDrill

DrillEvent == [component : Int, started : Int, completed : Int, age : Int, valid : BOOLEAN]

ASSUME DrillAssumption == DrillFiles \subseteq Seq(DrillEvent) /\ Rto \in Int /\ Rpo \in Int

VARIABLE drill          \* the report

DrillInit == drill = NoDrill

\* validate_drill_authority raises nothing.
Authorized(isolated, failover, approvals) ==
    /\ DrillContract.isolated => isolated
    /\ failover => DrillContract.failover
    /\ DrillApprovers \subseteq approvals

\* event_by_component: the last event of a component is the one that counts.
Tried(events, c) == {i \in DOMAIN events : events[i].component = c}
EventOf(events, c) == events[Max(Tried(events, c))]

\* Mutant: a component may start with its dependency, not after it.
Recovered_Together(events, c) ==
    /\ Tried(events, c) # {}
    /\ EventOf(events, c).valid
    /\ \A d \in deps[c] : Tried(events, d) # {} =>
         EventOf(events, c).started >= EventOf(events, d).started

\* No finding of the component itself; `valid` says that every validation of
\* its contract is there and passed.
Recovered(events, c) ==
    /\ Tried(events, c) # {}
    /\ EventOf(events, c).valid
    /\ \A d \in deps[c] : Tried(events, d) # {} =>
         EventOf(events, c).started >= EventOf(events, d).completed

\* actual_rto and actual_rpo, over all events of the file
ActualRto(events) == IF events = <<>> THEN 0 ELSE Max({events[i].completed : i \in DOMAIN events})
ActualRpo(events) == IF events = <<>> THEN 0 ELSE Max({events[i].age : i \in DOMAIN events})

\* The command, once recovery_order has returned.
EvaluateDrill(events, isolated, failover, approvals) ==
    /\ outcome = "done"
    /\ Authorized(isolated, failover, approvals)
    /\ drill' = [events |-> events,
                 passed |-> /\ \A c \in Components : Recovered(events, c)
                            /\ ActualRto(events) <= Rto /\ ActualRpo(events) <= Rpo]
    /\ UNCHANGED vars

DrillNext ==
    \E events \in DrillFiles, i, f \in BOOLEAN, a \in SUBSET DrillApprovers :
        EvaluateDrill(events, i, f, a)

DrillSpec == Init /\ DrillInit /\ [][(Next /\ UNCHANGED drill) \/ DrillNext]_<<vars, drill>>

-----------------------------------------------------------------------------
(* Properties *)

\* Reference: what a component cannot do without, at any distance.
Needs(c) ==
    {d \in Components : \A S \in SUBSET Components :
        deps[c] \subseteq S /\ (\A x \in S : deps[x] \subseteq S) => d \in S}

Passed == drill # NoDrill /\ drill.passed

\* In a drill that passed, a component was started when all that it needs,
\* directly or not, was recovered.  (The code checks direct dependencies, and
\* does not ask that an event ends after it starts: without that the order
\* holds from neighbour to neighbour only.)
PassedInOrder ==
    Passed /\ (\A i \in DOMAIN drill.events : drill.events[i].started <= drill.events[i].completed)
    => \A c \in Components : \A d \in Needs(c) :
         EventOf(drill.events, d).completed <= EventOf(drill.events, c).started

\* A second try hides no breach: in a drill that passed each try was within
\* the objectives, also one that a later event of the component replaced.
EveryTryInTime ==
    Passed => \A i \in DOMAIN drill.events :
                drill.events[i].completed <= Rto /\ drill.events[i].age <= Rpo

\* "Passed" is earned, by the order of the tries and by the time of all of them.
DrillIsEarned == PassedInOrder /\ EveryTryInTime
=============================================================================
