---------------------------- MODULE AgentRelease ----------------------------
(***************************************************************************)
(* The choice of an agent for a shadow release: ai_production.py.  The     *)
(* baseline's figures are given; the candidate serves requests, each with  *)
(* a sequence of tool calls that its trace may or may not have kept.       *)
(***************************************************************************)
EXTENDS Rounding, Sequences, FiniteSets, SequencesExt

CONSTANTS
    Tools,
    MaxSteps, MaxRepetitions,   \* of the release contract
    Floor,                      \* [completion, loops, failures]: limits in hundredths of a percent
    BaselineValue,              \* net contribution value of the baseline, in cents
    Worth,                      \* [completed, escalated, step]: what a workflow brings and costs
    Fit,                        \* the other scores are within the contract
    NoAgent,
    MaxServed, MaxCalls         \* bounds of the model

\* Steps and escalations cost something or nothing, which the code takes as
\* given.
ASSUME AgentAssumption ==
    /\ MaxSteps \in Int /\ MaxRepetitions \in Int /\ BaselineValue \in Int
    /\ {Floor.completion, Floor.loops, Floor.failures, Worth.completed} \subseteq Int
    /\ {Worth.escalated, Worth.step} \subseteq Nat

VARIABLES
    calls,          \* tools called for the current request
    served,         \* [requests, completed, observed, looped, failures, value]
    chosen          \* the report of the last command

agentVars == <<calls, served, chosen>>

AgentInit ==
    /\ calls = <<>>
    /\ served = [requests |-> 0, completed |-> 0, observed |-> 0, looped |-> 0,
                 failures |-> 0, value |-> 0]
    /\ chosen = NoAgent

Times(tool) == Cardinality({i \in DOMAIN calls : calls[i] = tool})

\* sequence_has_loop
HasLoop == Len(calls) > MaxSteps \/ \E tool \in ToSet(calls) : Times(tool) > MaxRepetitions

CallTool(tool) ==
    /\ served.requests < MaxServed /\ Len(calls) < MaxCalls
    /\ calls' = Append(calls, tool)
    /\ UNCHANGED <<served, chosen>>

\* Mutant: what an escalation costs is added.
Gain_Unsigned(end) == IF end = "completed" THEN Worth.completed ELSE Worth.escalated

\* A completed workflow brings revenue; any other costs an escalation.
Gain(end) == IF end = "completed" THEN Worth.completed ELSE -Worth.escalated

\* The request ends: completed, escalated or failed by the provider, with its
\* sequence kept or not.
EndRequest(end, kept) ==
    /\ served.requests < MaxServed
    /\ served' = [requests |-> served.requests + 1,
                  completed |-> served.completed + (IF end = "completed" THEN 1 ELSE 0),
                  observed |-> served.observed + (IF kept THEN 1 ELSE 0),
                  looped |-> served.looped + (IF kept /\ HasLoop THEN 1 ELSE 0),
                  failures |-> served.failures + (IF end = "failed" THEN 1 ELSE 0),
                  value |-> served.value - Worth.step * Len(calls) + Gain(end)]
    /\ calls' = <<>>
    /\ UNCHANGED chosen

-----------------------------------------------------------------------------
(* evaluate_ai_release *)

\* round(part / all * 100, 2), in hundredths; 0.0 of no sequences.
Percent(part, all) == IF all = 0 THEN 0 ELSE RoundHalfEven(10000 * part, all)

\* _gate gives no reason.
Admitted(approved) ==
    /\ approved /\ Fit
    /\ Percent(served.completed, served.requests) >= Floor.completion
    /\ Percent(served.looped, served.observed) <= Floor.loops
    /\ Percent(served.failures, served.requests) <= Floor.failures
    /\ served.value >= BaselineValue

\* The report: without requests it raises.  The baseline, if it is fit, is the
\* first candidate and gives way to a greater value only.
EvaluateAgents(approved, baselineFits) ==
    /\ served.requests > 0
    /\ chosen' = IF Admitted(approved) /\ (baselineFits => served.value > BaselineValue)
                 THEN "candidate"
                 ELSE IF approved /\ baselineFits THEN "baseline" ELSE "none"
    /\ UNCHANGED <<calls, served>>

AgentNext ==
    \/ \E t \in Tools : CallTool(t)
    \/ \E end \in {"completed", "escalated", "failed"}, kept \in BOOLEAN : EndRequest(end, kept)
    \/ \E approved, baselineFits \in BOOLEAN : EvaluateAgents(approved, baselineFits)

AgentSpec == AgentInit /\ [][AgentNext]_agentVars

-----------------------------------------------------------------------------
(* Properties *)

\* An agent that goes round in circles is caught, however long the circle is:
\* a part of the sequence that repeats itself more often than a tool may be
\* called is a loop.
CirclesAreCaught ==
    \A from, len \in 1..Len(calls) :
        /\ from + len * (MaxRepetitions + 1) - 1 <= Len(calls)
        /\ \A i \in from..(from + len * MaxRepetitions - 1) : calls[i] = calls[i + len]
        => HasLoop

\* Loops are found and held against the candidate: one that failed a request
\* in a loop, and whose sequence was kept, is not admitted for it.  (A request
\* that failed in few steps may turn the decision: it makes loops rarer.)
LoopsDoNotHelp ==
    [][/\ CirclesAreCaught'
       /\ served'.failures > served.failures /\ served'.looped > served.looped
            /\ served.requests > 0 /\ Admitted(TRUE)'
            => Admitted(TRUE)]_agentVars
=============================================================================
