--------------------------- MODULE NetworkChange ---------------------------
(***************************************************************************)
(* Connectivity intents under a sequence of network changes:               *)
(* network_assurance.py.  The current paths are observed in the network,   *)
(* the proposed ones are analysed from a plan; both go into a file, whole  *)
(* or in part, and an eligible plan may be deployed at any later time.     *)
(* The network also changes by itself.                                     *)
(***************************************************************************)
EXTENDS Integers, FiniteSets

CONSTANTS
    Intents,        \* intent -> [reach, required, prohibited, dns, latency]
    Topologies,     \* intent -> [reachable, returns, path, dns, latency]
    NetworkApprovers,
    NoClearance

VARIABLES
    network,            \* the paths as they are
    current, proposed,  \* the file's observations, of some of the intents
    clearance,          \* the last report: the plan and whether it is eligible
    kept                \* history: intents that held at first and at all times since,
                        \* but for what a deployment broke

networkVars == <<network, current, proposed, clearance, kept>>

Flows == DOMAIN Intents

ASSUME TopologyAssumption == \A paths \in Topologies : DOMAIN paths = Flows

-----------------------------------------------------------------------------
(* evaluate_path *)

TransitHolds(intent, path) == intent.required \subseteq path /\ intent.prohibited \cap path = {}

PathHolds(flow, seen) ==
    LET intent == Intents[flow]
    IN  /\ seen.reachable = intent.reach
        /\ intent.reach => seen.returns
        /\ seen.reachable => TransitHolds(intent, seen.path)
        /\ intent.dns # "not-applicable" => seen.dns = intent.dns
        /\ seen.latency <= intent.latency

Passing(paths) == {f \in DOMAIN paths : PathHolds(f, paths[f])}

-----------------------------------------------------------------------------
(* The network and the file *)

NetworkInit ==
    /\ network \in Topologies
    /\ current = <<>> /\ proposed = <<>> /\ clearance = NoClearance
    /\ kept = Passing(network)

Recorded(paths, some) == [f \in some |-> paths[f]]

ObserveCurrent(some) ==
    /\ current' = Recorded(network, some)
    /\ UNCHANGED <<network, proposed, clearance, kept>>

Analyse(plan, some) ==
    /\ proposed' = Recorded(plan, some)
    /\ UNCHANGED <<network, current, clearance, kept>>

Drift(paths) ==
    /\ network' = paths
    /\ kept' = kept \cap Passing(paths)
    /\ UNCHANGED <<current, proposed, clearance>>

-----------------------------------------------------------------------------
(* evaluate_network_change *)

\* Mutant: the proposal is only asked to break no more than is broken now.
Regressions_ByCount ==
    IF Cardinality(Passing(proposed)) < Cardinality(Passing(current))
    THEN Passing(current) \ Passing(proposed)
    ELSE {}

Regressions == Passing(current) \ Passing(proposed)

EvaluateNetworkChange(approvals) ==
    /\ DOMAIN current = Flows /\ DOMAIN proposed = Flows
    /\ clearance' = [plan |-> proposed,
                    eligible |-> Regressions = {} /\ NetworkApprovers \subseteq approvals]
    /\ UNCHANGED <<network, current, proposed, kept>>

\* The change is made as it was analysed.
Deploy ==
    /\ clearance # NoClearance /\ clearance.eligible
    /\ network' = clearance.plan
    /\ UNCHANGED <<current, proposed, clearance, kept>>

NetworkNext ==
    \/ \E some \in SUBSET Flows : ObserveCurrent(some)
    \/ \E plan \in Topologies, some \in SUBSET Flows : Analyse(plan, some)
    \/ \E paths \in Topologies : Drift(paths)
    \/ \E a \in SUBSET NetworkApprovers : EvaluateNetworkChange(a)
    \/ Deploy

NetworkSpec == NetworkInit /\ [][NetworkNext]_networkVars

-----------------------------------------------------------------------------
(* Properties *)

\* An intent that has held so far is broken by no approved change, nor by any
\* number of them, however old the observations and the clearance are.  (An
\* intent that was broken for a time has no such promise: observed then, it
\* may be broken again, for a failure on both sides is no regression.)
KeptIntentsHold == kept \subseteq Passing(network)
=============================================================================
