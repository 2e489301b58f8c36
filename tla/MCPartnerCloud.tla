--------------------------- MODULE MCPartnerCloud ---------------------------
(* Constants and bounds of the run over PartnerCloud. *)
EXTENDS PartnerCloud, TLC

CONSTANTS p1, p2, a1, a2, o1, o2

VARIABLE shape

December == 11

Priced(m, rs, rm, ws, wm, n) ==
    [model |-> m, retail |-> [setup |-> rs, monthly |-> rm],
     wholesale |-> [setup |-> ws, monthly |-> wm],
     targets |-> [samples |-> n, rate |-> 9000, p95 |-> 300]]

\* Two catalogs with other prices, model and targets, and one to be refused.
Files ==
    {Priced("small", 30, 25, 25, 20, 1), Priced("large", 50, 40, 40, 35, 2),
     Priced("small", 10, 25, 12, 20, 1)}

\* A latency within the target and one beyond it.
Speeds == {100, 302}

-----------------------------------------------------------------------------
(* Two shapes of behaviour, bounded in different ways: two operators race on *)
(* one order, or one of them works on two orders of one partner, placed      *)
(* under two catalogs before either is activated, and one probe is recorded. *)

Placed == {o \in OrderIds : orders[o] # None}
Named == Placed \cup {activating[a].id : a \in {b \in Operators : activating[b] # None}}

InShape ==
    \/ shape = "race" /\ Cardinality(Named) <= 1
    \/ /\ shape = "orders"
       /\ Cardinality({placed[o].model : o \in Placed}) = Cardinality(Placed)
       /\ activating[a2] = None /\ (activating[a1] # None => Placed = OrderIds)
       /\ Cardinality(partners) <= 1 /\ Len(probes) <= 1 /\ scores = {}

ShapedInit == PartnerInit /\ shape \in {"race", "orders"}
ShapedSpec == ShapedInit /\ [][PartnerNext /\ UNCHANGED shape /\ InShape']_<<vars, shape>>

PartnerSymmetry == Permutations({p1, p2}) \cup Permutations({o1, o2})
=============================================================================
