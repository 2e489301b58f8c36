---------------------------- MODULE OutcomeCost ----------------------------
(***************************************************************************)
(* The cost of AI workflows and of their accepted outcomes: ai_value.py.   *)
(* Events of a trace are added to a file and may be exported again; a      *)
(* model's direct cost of an event is given with it, in the code's last    *)
(* decimal (a hundredth of a cent), and the shared cost is spread by       *)
(* tokens.                                                                 *)
(***************************************************************************)
EXTENDS Rounding, Sequences

CONSTANTS
    Outcomes,       \* events: [id, workflow, model, tokens, direct, attempt, accepted]
    RateCards,      \* models with a rate card
    Platform,       \* shared_platform_cost_usd
    Routes,         \* lists of routing candidates: [fit, cost]
    Reviewers,      \* required_approvers
    NoLedger,
    MaxOutcomes     \* bound of the model

\* What OutcomeEvent.from_dict and the command raise on is no event here.
ASSUME OutcomeAssumption ==
    /\ \A e \in Outcomes : e.tokens \in Nat /\ e.direct \in Nat /\ e.attempt \in Nat \ {0}
    /\ Platform \in Nat

VARIABLES
    traces,         \* outcome_events
    ledger          \* the report of the last command; an event outdates it

outcomeVars == <<traces, ledger>>

OutcomeInit == traces = <<>> /\ ledger = NoLedger

Export(e) ==
    /\ Len(traces) < MaxOutcomes
    /\ traces' = Append(traces, e)
    /\ ledger' = NoLedger

-----------------------------------------------------------------------------
(* evaluate_ai_value *)

\* Mutant: an event that repeats the one before it is all that is looked for.
Unique_Adjacent == \A i \in 2..Len(traces) : traces[i].id # traces[i - 1].id

Unique == \A i, j \in DOMAIN traces : traces[i].id = traces[j].id => i = j

TokensOf == [i \in DOMAIN traces |-> traces[i].tokens]
DirectOf == [i \in DOMAIN traces |-> traces[i].direct]

Tokens == SumOver(TokensOf, DOMAIN traces)

\* What the costs of events are kept over: the tokens of all, or 1 of none.
Weight == IF Tokens = 0 THEN 1 ELSE Tokens

\* total_event_cost, over Weight.
EventCost == [i \in DOMAIN traces |-> traces[i].direct * Weight + Platform * traces[i].tokens]

\* A later attempt, or one that was not accepted.
Wasted == {i \in DOMAIN traces : traces[i].attempt > 1 \/ ~traces[i].accepted}

Workflows == {traces[i].workflow : i \in DOMAIN traces}
EventsOf(w) == {i \in DOMAIN traces : traces[i].workflow = w}

\* allocated_cost_usd
WorkflowCost(w) == RoundHalfEven(SumOver(EventCost, EventsOf(w)), Weight)

TotalSpend == SumOver(DirectOf, DOMAIN traces) + Platform
Waste == RoundHalfEven(SumOver(EventCost, Wasted), Weight)

AcceptedOutcomes(w) == {i \in EventsOf(w) : traces[i].accepted}

\* cost_per_accepted_outcome_usd; 0 stands for None.
PerAccepted(w) ==
    LET n == Cardinality(AcceptedOutcomes(w))
    IN  IF n = 0 THEN 0 ELSE RoundHalfEven(SumOver(EventCost, EventsOf(w)), n * Weight)

\* No reason to reject it; `fit` says that region, quality, latency and
\* reversibility hold.
Routable(ks, approvals) == {i \in DOMAIN ks : ks[i].fit /\ Reviewers \subseteq approvals}

Cheapest(ks, approvals) ==
    LET may == Routable(ks, approvals)
    IN  IF may = {} THEN 0
        ELSE Min({i \in may : \A j \in may : ks[i].cost <= ks[j].cost})

EvaluateValue(ks, approvals) ==
    /\ traces # <<>> /\ Unique
    /\ \A i \in DOMAIN traces : traces[i].model \in RateCards
    /\ ledger' = [cost |-> [w \in Workflows |-> WorkflowCost(w)],
                  perAccepted |-> [w \in Workflows |-> PerAccepted(w)],
                  total |-> TotalSpend, waste |-> Waste,
                  shadow |-> Cheapest(ks, approvals)]
    /\ UNCHANGED traces

OutcomeNext ==
    \/ \E e \in Outcomes : Export(e)
    \/ \E ks \in Routes, a \in SUBSET Reviewers : EvaluateValue(ks, a)

OutcomeSpec == OutcomeInit /\ [][OutcomeNext]_outcomeVars

-----------------------------------------------------------------------------
(* Properties *)

Ids == {traces[i].id : i \in DOMAIN traces}
First(id) == CHOOSE i \in DOMAIN traces : traces[i].id = id /\ \A j \in 1..(i - 1) : traces[j].id # id

\* What was spent is owned, and once: the workflows bear the direct cost of
\* each event and the whole platform, but for half a unit of rounding each.
\* (Where no event has tokens the platform is borne by nobody, while the report
\* claims an allocation coverage of 100.0.)
SpendIsOwned ==
    ledger # NoLedger =>
        LET borne == SumOver(ledger.cost, DOMAIN ledger.cost)
            once == SumOver([id \in Ids |-> traces[First(id)].direct], Ids)
            due == once + (IF Tokens = 0 THEN 0 ELSE Platform)
        IN  2 * (borne - due) \in (-Cardinality(DOMAIN ledger.cost))..Cardinality(DOMAIN ledger.cost)

\* Waste and useful work make up the total: beside the waste, a ledger has paid
\* for nothing but the first attempts that were accepted.
WasteIsTheRest ==
    ledger # NoLedger /\ Tokens > 0 =>
        LET useful == {i \in DOMAIN traces : traces[i].attempt = 1 /\ traces[i].accepted}
            rest == SumOver(EventCost, useful)
        IN  2 * (Weight * (ledger.total - ledger.waste) - rest) \in (-Weight)..Weight

\* The ledger of outcomes balances: spend is owned, and waste is what it did not
\* buy.
LedgerBalances == SpendIsOwned /\ WasteIsTheRest
=============================================================================
