--------------------------- MODULE CostAllocation ---------------------------
(***************************************************************************)
(* The allocation of one period's cost records to workloads, and the       *)
(* options of the report: finops.py.  Money is in cents, the precision of  *)
(* the code's round(x, 2); the parts of a shared record are kept as        *)
(* numerators over one common denominator.                                 *)
(***************************************************************************)
EXTENDS Rounding, Sequences

CONSTANTS
    Services,       \* workloads with a demand record
    Drivers,        \* usage drivers a shared record may name
    Weights,        \* allocation_drivers: Weights[driver][service]
    CostRecords,    \* records a bill may hold: [cost, allocation, driver]
    Denominator,    \* a multiple of every total by which the code divides
    MaxRecords      \* bound of the model

ASSUME WeightAssumption == Weights \in [Drivers -> [Services -> Int]] /\ IsFiniteSet(Services)

\* "Cost records cannot be negative": with one that is, no report is made.
ASSUME CostAssumption == \A r \in CostRecords : r.cost \in Nat

VARIABLE bill       \* cost_records

CostInit == bill = <<>>

AddRecord(r) ==
    /\ Len(bill) < MaxRecords
    /\ bill' = Append(bill, r)

CostNext == \E r \in CostRecords : AddRecord(r)

-----------------------------------------------------------------------------
(* _allocate_costs *)

TotalWeight(d) == SumOver(Weights[d], Services)

Usable == {d \in Drivers : TotalWeight(d) > 0}

ASSUME DenominatorAssumption ==
    /\ Denominator \in Nat \ {0}
    /\ \A d \in Usable : Denominator % TotalWeight(d) = 0

\* A workload may be called "shared": its records are its own.
Shared(r) == r.allocation \notin Services /\ r.allocation = "shared" /\ r.driver \in Usable

\* Mutant: an unknown driver makes a record nobody's.
Lost_UnknownDriver(r) == r.allocation \notin Services \cup {"shared"}

\* What is charged to nobody: no workload's, and not shared by a usable driver.
Lost(r) == r.allocation \notin Services /\ ~Shared(r)

\* What the record adds to allocated[s], over Denominator.
Part(r, s) ==
    IF r.allocation = s THEN r.cost * Denominator
    ELSE IF Shared(r) THEN r.cost * Weights[r.driver][s] * (Denominator \div TotalWeight(r.driver))
    ELSE 0

OverBill(f) == SumOver(f, DOMAIN bill)

Costs == [i \in DOMAIN bill |-> bill[i].cost]
Nobodys == [i \in DOMAIN bill |-> IF Lost(bill[i]) THEN bill[i].cost ELSE 0]
Parts(s) == [i \in DOMAIN bill |-> Part(bill[i], s)]

\* allocated_cost_usd of a workload, unallocated_cost_usd and total_cost_usd
Allocated(s) == RoundHalfEven(OverBill(Parts(s)), Denominator)
Unallocated == OverBill(Nobodys)
TotalCost == OverBill(Costs)

CostSpec == CostInit /\ [][CostNext]_bill

-----------------------------------------------------------------------------
(* Properties *)

\* No cent of the bill is lost or charged twice: what the workloads bear and
\* what nobody bears is the total, but for half a cent of rounding each.
Conserved ==
    LET borne == SumOver([s \in Services |-> Allocated(s)], Services) + Unallocated
    IN  2 * (borne - TotalCost) \in (-Cardinality(Services))..Cardinality(Services)

Own(s) == [i \in DOMAIN bill |-> IF bill[i].allocation = s THEN bill[i].cost ELSE 0]

\* A workload bears at least its own records, unless a driver gives it a
\* negative weight (the code asks only that the weights sum to more than 0).
OwnCostsBorne ==
    \A s \in Services :
        (\A d \in Drivers : Weights[d][s] >= 0) =>
            Allocated(s) >= OverBill(Own(s))

\* The bill is borne, to the cent and by those who caused it.
BillIsBorne == Conserved /\ OwnCostsBorne
=============================================================================
