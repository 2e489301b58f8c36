------------------------ MODULE CommercialOnboarding ------------------------
(***************************************************************************)
(* Metered usage of a subscription and the onboarding decision that is     *)
(* reconciled with it: commercial.py.  Usage events come from a meter that *)
(* may deliver one again, or two that contradict each other; `log` is the  *)
(* list in the evidence file, to which each delivery adds.  Money is in    *)
(* cents, the precision of the code's round(x, 2).                         *)
(***************************************************************************)
EXTENDS Integers, Sequences, SequencesExt

CONSTANTS
    Events,         \* usage events a meter may deliver
    Offers,         \* lists of deployment offers
    Contract,       \* the customer's contract
    Sponsors,       \* required_approvers
    Invoices,       \* metered amounts an invoice may show
    Tolerance,      \* meter_variance_usd
    NoReview,
    MaxDeliveries   \* bound of the model

VARIABLES
    log,            \* usage_events
    review          \* the report of the last command; a delivery outdates it

commercialVars == <<log, review>>

CommercialInit == log = <<>> /\ review = NoReview

Deliver(e) ==
    /\ Len(log) < MaxDeliveries
    /\ log' = Append(log, e)
    /\ review' = NoReview

-----------------------------------------------------------------------------
(* aggregate_usage *)

NothingSeen == [accepted |-> <<>>, ids |-> {}, keys |-> {}]

Duplicate(acc, e) == e.id \in acc.ids \/ e.key \in acc.keys

\* Mutant: only the event before is remembered.
Meter_Adjacent(acc, e) ==
    IF ~e.ours \/ Duplicate(acc, e) THEN acc
    ELSE [accepted |-> Append(acc.accepted, e), ids |-> {e.id}, keys |-> {e.key}]

\* One event of the loop: of another subscription or period, seen, or counted.
Meter(acc, e) ==
    IF ~e.ours \/ Duplicate(acc, e) THEN acc
    ELSE [accepted |-> Append(acc.accepted, e),
          ids |-> acc.ids \cup {e.id}, keys |-> acc.keys \cup {e.key}]

Taken(events) == FoldLeft(Meter, NothingSeen, events)
Counted(events) == Taken(events).accepted

\* metered_amount_usd
Metered(events) == FoldLeft(LAMBDA total, e : total + e.amount, 0, Counted(events))

-----------------------------------------------------------------------------
(* evaluate_offer and evaluate_commercial_onboarding *)

Contribution(o) == Contract.revenue - o.cost

\* projected_gross_margin_pct >= minimum_gross_margin_pct
MarginMet(o) ==
    IF Contract.revenue = 0 THEN Contract.margin <= 0
    ELSE 100 * Contribution(o) >= Contract.margin * Contract.revenue

\* No reason to reject the offer.
EligibleOffer(o, approvals) ==
    /\ o.isolation = Contract.isolation
    /\ o.region = Contract.region
    /\ Contract.entitlements \subseteq o.entitlements
    /\ MarginMet(o)
    /\ Sponsors \subseteq approvals

\* LIFECYCLE_TRANSITIONS
Transitions ==
    {<<"contracted", "awaiting-activation">>, <<"awaiting-activation", "activation-validated">>,
     <<"activation-validated", "provisioning">>, <<"provisioning", "validating">>,
     <<"validating", "active">>, <<"active", "suspended">>, <<"active", "cancellation-pending">>,
     <<"suspended", "active">>, <<"suspended", "cancellation-pending">>,
     <<"cancellation-pending", "retention-period">>,
     <<"retention-period", "decommission-approved">>, <<"decommission-approved", "decommissioned">>}

Candidates(offers, approvals) == {i \in DOMAIN offers : EligibleOffer(offers[i], approvals)}

\* The first of the candidates that contribute most; 0 when there is none.
Selected(offers, approvals) ==
    LET among == Candidates(offers, approvals)
        best == {i \in among : \A j \in among : Contribution(offers[j]) <= Contribution(offers[i])}
    IN  IF best = {} THEN 0 ELSE CHOOSE i \in best : \A j \in best : i <= j

Reconciled(invoice) == invoice - Metered(log) \in (-Tolerance)..Tolerance

Onboard(offers, approvals, invoice) ==
    LET choice == Selected(offers, approvals)
    IN  /\ <<Contract.current, Contract.requested>> \in Transitions
        /\ offers # <<>>
        /\ review' = [offers |-> offers, approvals |-> approvals, selected |-> choice,
                      decision |-> IF choice # 0 /\ Reconciled(invoice)
                                   THEN "eligible-for-provisioning-plan" ELSE "blocked"]
        /\ UNCHANGED log

CommercialNext ==
    \/ \E e \in Events : Deliver(e)
    \/ \E o \in Offers, a \in SUBSET Sponsors, i \in Invoices : Onboard(o, a, i)

CommercialSpec == CommercialInit /\ [][CommercialNext]_commercialVars

-----------------------------------------------------------------------------
(* Properties *)

\* Usage is counted once and not lost, whatever the meter repeats or
\* contradicts: no two counted events share an id or a key, and one that is
\* left out shares one with an event that is counted.
CountedOnce ==
    LET counted == Counted(log)
    IN  /\ \A i, j \in DOMAIN counted :
             i # j => counted[i].id # counted[j].id /\ counted[i].key # counted[j].key
        /\ \A i \in DOMAIN log : log[i].ours =>
             \E j \in DOMAIN counted :
                counted[j].id = log[i].id \/ counted[j].key = log[i].key

\* The bill is of distinct events: a delivery that repeats any earlier one,
\* conflicting or not, leaves the metered amount as it was.
BilledOnce ==
    [][/\ CountedOnce'
       /\ Len(log') > Len(log) /\ Contains(log, Last(log'))
            => Metered(log') = Metered(log)]_log
=============================================================================
