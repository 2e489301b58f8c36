-------------------------- MODULE DependencyOrder --------------------------
(***************************************************************************)
(* The depth-first walk that orders the components of a recovery contract  *)
(* (recovery.recovery_order) and the assets of a migration                 *)
(* (migration.dependency_order).                                           *)
(*                                                                         *)
(* The recursion is a stack of frames: a component being visited, and the  *)
(* dependencies its loop has not come to.  The loop takes them sorted in   *)
(* recovery and as listed in migration; here it takes them in any order.   *)
(* Components are numbers, so that sorted(components) is their own order.  *)
(***************************************************************************)
EXTENDS Integers, Sequences

CONSTANTS
    N,          \* components are 1..N, with unique ids
    Named       \* what a contract may list as a dependency

ASSUME SizeAssumption == N \in Nat /\ Named \subseteq Int

VARIABLES
    deps,       \* the contract: the dependencies of each component
    left,       \* components the outer loop has not come to
    stack,      \* calls of `visit` under way, innermost last
    visited,
    order,      \* components appended so far
    outcome     \* "called", "walking", or how the function ended

vars == <<deps, left, stack, visited, order, outcome>>

Components == 1..N
Frame == [node : Components, todo : SUBSET Components]

TypeOK ==
    /\ deps \in [Components -> SUBSET Named]
    /\ left \subseteq Components
    /\ stack \in Seq(Frame)
    /\ visited \subseteq Components
    /\ order \in Seq(Components)
    /\ outcome \in {"called", "walking", "unknown", "cycle", "done"}

Init ==
    /\ deps \in [Components -> SUBSET Named]
    /\ left = Components
    /\ stack = <<>>
    /\ visited = {}
    /\ order = <<>>
    /\ outcome = "called"

-----------------------------------------------------------------------------
(* The checks before the walk *)

\* Dependencies that are no component.
UnknownNames == (UNION {deps[c] : c \in Components}) \ Components

CheckNames ==
    /\ outcome = "called"
    /\ outcome' = IF UnknownNames = {} THEN "walking" ELSE "unknown"
    /\ UNCHANGED <<deps, left, stack, visited, order>>

-----------------------------------------------------------------------------
(* visit *)

Visiting == {stack[i].node : i \in DOMAIN stack}
Top == stack[Len(stack)]

InCycle(c) == c \in Visiting

Seen(c) == c \in visited

\* visit(c) returns at once, or its frame joins the stack.
Visited(frames, c) ==
    IF Seen(c) THEN frames ELSE Append(frames, [node |-> c, todo |-> deps[c]])

\* The outer loop comes to the next of sorted(components).
VisitNext ==
    /\ outcome = "walking" /\ stack = <<>>
    /\ \E c \in left :
         /\ \A d \in left : c <= d
         /\ left' = left \ {c}
         /\ stack' = Visited(stack, c)
    /\ UNCHANGED <<deps, visited, order, outcome>>

\* The loop of the innermost call comes to one of its dependencies.
After(d) == [stack EXCEPT ![Len(stack)] = [node |-> Top.node, todo |-> Top.todo \ {d}]]

VisitDependency ==
    /\ outcome = "walking" /\ stack # <<>>
    /\ \E d \in Top.todo :
         /\ ~InCycle(d)
         /\ stack' = Visited(After(d), d)
    /\ UNCHANGED <<deps, left, visited, order, outcome>>

\* It comes to a component whose own call is under way, and raises.
RaiseCycle ==
    /\ outcome = "walking" /\ stack # <<>>
    /\ \E d \in Top.todo : InCycle(d)
    /\ outcome' = "cycle"
    /\ UNCHANGED <<deps, left, stack, visited, order>>

MayLeave_First == TRUE
\* The loop of the innermost call is over.
MayLeave == Top.todo = {}

Leave ==
    /\ outcome = "walking" /\ stack # <<>> /\ MayLeave
    /\ stack' = SubSeq(stack, 1, Len(stack) - 1)
    /\ visited' = visited \cup {Top.node}
    /\ order' = Append(order, Top.node)
    /\ UNCHANGED <<deps, left, outcome>>

Return ==
    /\ outcome = "walking" /\ stack = <<>> /\ left = {}
    /\ outcome' = "done"
    /\ UNCHANGED <<deps, left, stack, visited, order>>

\* The function has ended, by its result or an exception.
Ended == outcome \in {"unknown", "cycle", "done"} /\ UNCHANGED vars

Next ==
    \/ CheckNames
    \/ VisitNext \/ VisitDependency \/ RaiseCycle \/ Leave
    \/ Return
    \/ Ended

Spec == Init /\ [][Next]_vars

-----------------------------------------------------------------------------
(* Properties *)

\* What is recovered or cut over comes after everything it depends on: the
\* promise of docs/recovery-assurance.md, "dependencies recovered in order".
DependenciesFirst ==
    \A i \in DOMAIN order : \A d \in deps[order[i]] : \E j \in 1..(i - 1) : order[j] = d

\* No component is ordered twice, however many depend on it.
EachOnce == \A i, j \in DOMAIN order : order[i] = order[j] => i = j

\* Reference: components that depend on one another in a circle.
Circle(S) == S # {} /\ \A c \in S : deps[c] \cap S # {}
Cyclic == \E S \in SUBSET Components : Circle(S)

\* The walk gives an order of all components exactly when there is one: it
\* refuses unknown names and circles, and nothing else.
AnswersRight ==
    /\ outcome = "unknown" => \E c \in Components : ~(deps[c] \subseteq Components)
    /\ outcome = "cycle" => Cyclic
    /\ outcome = "done" =>
         /\ {order[i] : i \in DOMAIN order} = Components
         /\ ~Cyclic

\* The order a recovery or a migration follows is right: dependencies first, no
\* component twice, and given exactly when the contract has one.
OrderIsRight == DependenciesFirst /\ EachOnce /\ AnswersRight
=============================================================================
