---------------------------- MODULE DataRelease ----------------------------
(***************************************************************************)
(* The decision on publishing a set of data products, with the consumers   *)
(* that a failed one reaches: data_reliability.py.  The loop over the      *)
(* contracts is taken one product at a time, and for each the search of    *)
(* the lineage graph one node of its queue at a time.  Nodes are numbers,  *)
(* so that sorted(nodes) is their own order.                               *)
(***************************************************************************)
EXTENDS Integers, Sequences, FiniteSets, SequencesExt

CONSTANTS
    Nodes,          \* lineage nodes: products and consumers
    Products,       \* products under contract, in order
    Contracts,      \* the contract of each product
    Observed,       \* what observations may say: functions on the products
    Lineages,       \* edges a lineage may have: sets of <<source, target>>
    Stewards,       \* required_approvers
    NoField         \* a field that was not observed

ASSUME LineageAssumption ==
    /\ IsFiniteSet(Nodes) /\ Products \in Seq(Nodes)
    /\ Lineages \subseteq SUBSET (Nodes \X Nodes)

VARIABLES
    edges,          \* lineage_edges
    seen,           \* what this release's observations say of each product
    turn,           \* the product the loop has come to
    queue, reached, \* of downstream_nodes; reached = {} and queue = <<>> before a search
    searching,      \* downstream_nodes has been called for this product
    failed,         \* failed_products
    affected,       \* affected_consumers
    release         \* the decision, or "open"

releaseVars == <<edges, seen, turn, queue, reached, searching, failed, affected, release>>

ReleaseInit ==
    /\ edges \in Lineages
    /\ seen \in Observed
    /\ turn = 1
    /\ queue = <<>> /\ reached = {} /\ searching = FALSE
    /\ failed = {} /\ affected = {} /\ release = "open"

-----------------------------------------------------------------------------
(* evaluate_product *)

FieldHolds(c, f) ==
    /\ f # NoField
    /\ f.type = c.type /\ f.unit = c.unit
    /\ c.nullable \/ f.nulls = 0
    /\ c.min <= f.min /\ f.max <= c.max

\* No failure of the product and none of its fields.
Holds(c, o) ==
    /\ o.pipeline = "succeeded"
    /\ o.age <= c.age
    /\ o.complete >= c.complete
    /\ o.variance <= c.variance
    /\ \A n \in DOMAIN c.fields : FieldHolds(c.fields[n], o.fields[n])

-----------------------------------------------------------------------------
(* downstream_nodes *)

Consumers(n) == {e[2] : e \in {x \in edges : x[1] = n}}

\* Mutant: only the direct consumers.
Found_Direct(n) == {}

\* The neighbours that join the queue behind a node just reached.
Found(n) == Consumers(n) \ (reached \cup {n})

Known(n) == n \in reached

Open == release = "open" /\ turn <= Len(Products)

\* The queue starts with the consumers of the product, in any order.
Search ==
    /\ Open /\ ~searching
    /\ \E q \in SetToSeqs(Consumers(Products[turn])) : queue' = q
    /\ searching' = TRUE
    /\ UNCHANGED <<edges, seen, turn, reached, failed, affected, release>>

\* One turn of its loop: a node seen before is dropped.
Expand ==
    /\ searching /\ queue # <<>>
    /\ LET n == Head(queue)
       IN  IF Known(n)
           THEN queue' = Tail(queue) /\ UNCHANGED reached
           ELSE /\ reached' = reached \cup {n}
                /\ \E more \in SetToSeqs(Found(n)) :
                     /\ \A i, j \in DOMAIN more : i < j => more[i] < more[j]
                     /\ queue' = Tail(queue) \o more
    /\ UNCHANGED <<edges, seen, turn, searching, failed, affected, release>>

-----------------------------------------------------------------------------
(* evaluate_data_release *)

\* affected.update(consumers)
Reached(downstream) == affected \cup downstream

\* The search is over, and the product is evaluated.
Judge ==
    LET p == Products[turn]
        fails == ~Holds(Contracts[p], seen[p])
    IN  /\ searching /\ queue = <<>>
        /\ failed' = IF fails THEN failed \cup {p} ELSE failed
        /\ affected' = IF fails THEN Reached(reached \ {p}) ELSE affected
        /\ turn' = turn + 1 /\ searching' = FALSE /\ reached' = {}
        /\ UNCHANGED <<edges, seen, queue, release>>

\* After the loop, with the approvals the command was given.
Decide(approvals) ==
    /\ release = "open" /\ turn > Len(Products)
    /\ release' = IF failed = {} /\ Stewards \subseteq approvals
                  THEN "eligible-for-controlled-publication" ELSE "blocked"
    /\ UNCHANGED <<edges, seen, turn, queue, reached, searching, failed, affected>>

ReleaseNext ==
    \/ Search \/ Expand \/ Judge
    \/ \E a \in SUBSET Stewards : Decide(a)

ReleaseSpec == ReleaseInit /\ [][ReleaseNext]_releaseVars

-----------------------------------------------------------------------------
(* Properties *)

\* Reference: what any path of edges leads to.
Leads(S) == S \cup {e[2] : e \in {x \in edges : x[1] \in S}}
Downstream(n) ==
    {m \in Nodes : \A S \in SUBSET Nodes : Consumers(n) \subseteq S /\ Leads(S) = S => m \in S}

\* When the release is decided, everyone downstream of a failed product is
\* named and nobody else, cycles and repeated paths notwithstanding; and a
\* release that may be published reaches nobody with a breach.
AffectedAreDownstream ==
    release # "open" =>
        /\ affected = UNION {Downstream(p) \ {p} : p \in failed}
        /\ release # "blocked" =>
             \A p \in {Products[i] : i \in DOMAIN Products} : Holds(Contracts[p], seen[p])

\* The search is right and ends, on every lineage: who it names is downstream,
\* and a turn of its loop visits a new node, or none and shortens the queue.
FindsEveryConsumer ==
    [][/\ AffectedAreDownstream'
       /\ searching /\ searching' =>
            \/ reached \subseteq reached' /\ reached # reached'
            \/ reached' = reached /\ Len(queue') < Len(queue)]_releaseVars
=============================================================================
