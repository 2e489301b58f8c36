--------------------------- MODULE IncidentReplay ---------------------------
(***************************************************************************)
(* The replay of an incident: incident.py and its CLI.  Signals and        *)
(* diagnostics are added to the evidence file as they come in, signals     *)
(* late and more than once; the command may be run after any of them.      *)
(***************************************************************************)
EXTENDS Integers, Sequences, FiniteSetsExt

CONSTANTS
    Signals,        \* signals: [id, ours, source, symptom, value, threshold, minute]
    Diagnostics,    \* diagnostics: [read, verified, method]
    Authority,      \* [automatic, approval, prohibited]: sets of actions
    Deciders,       \* required_approvers
    Restorations,   \* restoration observations: [minute, healthy]
    RestoreMinutes, \* the objective
    NoIncident,
    MaxSignals, MaxDiagnostics  \* bounds of the model

ASSUME SignalAssumption == \A s \in Signals : s.minute \in Int /\ s.value \in Int

VARIABLES
    signals, diagnostics,       \* the evidence file
    incident                    \* the report of the last command

incidentVars == <<signals, diagnostics, incident>>

IncidentInit == signals = <<>> /\ diagnostics = <<>> /\ incident = NoIncident

Signal(s) ==
    /\ Len(signals) < MaxSignals
    /\ signals' = Append(signals, s)
    /\ UNCHANGED <<diagnostics, incident>>

Diagnose(d) ==
    /\ Len(diagnostics) < MaxDiagnostics
    /\ diagnostics' = Append(diagnostics, d)
    /\ UNCHANGED <<signals, incident>>

-----------------------------------------------------------------------------
(* correlate_signals *)

Members(symptom) == {i \in DOMAIN signals : signals[i].ours /\ signals[i].symptom = symptom}

Symptoms == {s \in {signals[i].symptom : i \in DOMAIN signals} : Members(s) # {}}

\* Mutant: the minute is that of the signal that came in last.
FirstMinute_AsDelivered(m) == signals[Max(m)].minute

FirstMinute(m) == Min({signals[i].minute : i \in m})

\* The threshold is that of the first member in the file, whatever the others say.
Correlated ==
    [s \in Symptoms |->
        LET m == Members(s)
        IN  [sources |-> {signals[i].source : i \in m},
             ids |-> {signals[i].id : i \in m},
             first |-> FirstMinute(m),
             peak |-> Max({signals[i].value : i \in m}),
             threshold |-> signals[Min(m)].threshold]]

-----------------------------------------------------------------------------
(* authorize_action and evaluate_incident *)

MayAct(action, approvals) ==
    /\ action \notin Authority.prohibited
    /\ \/ action \in Authority.automatic
       \/ action \in Authority.approval /\ Deciders \subseteq approvals

Verified == {i \in DOMAIN diagnostics : diagnostics[i].verified}

EvaluateIncident(action, approvals, restoration) ==
    /\ Symptoms # {}
    /\ MayAct(action, approvals)
    /\ \A i \in DOMAIN diagnostics : diagnostics[i].read
    /\ \A i \in Verified : diagnostics[i].method = "controlled_intervention"
    /\ incident' = [symptoms |-> Correlated, action |-> action, approvals |-> approvals,
                    repeated |-> Cardinality(UNION {Members(s) : s \in Symptoms})
                                   - Cardinality(Symptoms),
                    met |-> restoration.healthy /\ restoration.minute <= RestoreMinutes]
    /\ UNCHANGED <<signals, diagnostics>>

IncidentNext ==
    \/ \E s \in Signals : Signal(s)
    \/ \E d \in Diagnostics : Diagnose(d)
    \/ \E action \in UNION {Authority[k] : k \in DOMAIN Authority} \cup {"undeclared"},
          a \in SUBSET Deciders, r \in Restorations : EvaluateIncident(action, a, r)

IncidentSpec == IncidentInit /\ [][IncidentNext]_incidentVars

-----------------------------------------------------------------------------
(* Properties *)

\* What is known of an incident only grows: a later report, with signals that
\* came late, repeated or from elsewhere, keeps every symptom with its sources,
\* begins no later, peaks no lower and is held to the same threshold.
ReportsOnlyWiden ==
    [][incident # NoIncident =>
         \A s \in DOMAIN incident.symptoms :
            /\ s \in DOMAIN incident'.symptoms
            /\ LET old == incident.symptoms[s]
                   new == incident'.symptoms[s]
               IN  /\ old.sources \subseteq new.sources /\ old.ids \subseteq new.ids
                   /\ new.first <= old.first /\ old.peak <= new.peak
                   /\ new.threshold = old.threshold]_incident

=============================================================================
