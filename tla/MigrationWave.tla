--------------------------- MODULE MigrationWave ---------------------------
(***************************************************************************)
(* The recommendations and the cutover decisions of one migration wave:    *)
(* migration.py, over the assets DependencyOrder walks.  Rehearsals are    *)
(* added to the evidence file at its end, and reports are made again on    *)
(* what it holds by then, with the approvals given on the command line.    *)
(***************************************************************************)
EXTENDS DependencyOrder, FiniteSetsExt

CONSTANTS
    Estates,        \* each asset's target candidates: functions to sequences of
                    \* [ready, source, gain, spend]
    Evidence,       \* what a rehearsal may record: [asset, checks, downtime, rpo]
    Missing,
    Limits,         \* [downtime, rpo] of the cutover contract
    WaveApprovers,  \* required_approvers
    NoWave,
    MaxRehearsals   \* bound of the model

ASSUME EvidenceAssumption ==
    /\ Evidence \subseteq [asset : Int, checks : BOOLEAN, downtime : Int, rpo : Int]
    /\ Missing \notin Evidence

VARIABLES
    rehearsals,     \* the file's cutover_evidence
    wave            \* the last report; `seen` and `approvals` are what it was made on

waveVars == <<rehearsals, wave>>

WaveInit == rehearsals = <<>> /\ wave = NoWave

\* first_year_net_value: the source's cost, savings and revenue, less the
\* target's and the implementation's cost, downtime and the risk reserve.
NetValue(k) == k.source + k.gain - k.spend

Ready(ks) == {i \in DOMAIN ks : ks[i].ready}

\* recommended_candidate: the first of the ready ones with the most value.
Recommended(ks) ==
    IF Ready(ks) = {} THEN 0
    ELSE Min({i \in Ready(ks) : \A j \in Ready(ks) : NetValue(ks[j]) <= NetValue(ks[i])})

\* A rehearsal of an asset is written to the file.
Rehearse(e) ==
    /\ Len(rehearsals) < MaxRehearsals
    /\ rehearsals' = Append(rehearsals, e)
    /\ UNCHANGED <<vars, wave>>

RehearsalsOf(c) == {i \in DOMAIN rehearsals : rehearsals[i].asset = c}

\* Mutant: setdefault instead of a comprehension.
Latest_First(c) ==
    IF RehearsalsOf(c) = {} THEN Missing ELSE rehearsals[Min(RehearsalsOf(c))]

\* The evidence of an asset: {item.asset_id: item for item in ...} keeps the last.
Latest(c) ==
    IF RehearsalsOf(c) = {} THEN Missing ELSE rehearsals[Max(RehearsalsOf(c))]

\* `checks` says that all seven verifications passed.
Rehearsed(e) == e.checks /\ e.downtime <= Limits.downtime /\ e.rpo <= Limits.rpo

\* _cutover_decision gives no reason.
MayCutOver(e, approvals) == e # Missing /\ Rehearsed(e) /\ WaveApprovers \subseteq approvals

EvaluateMigration(estate, approvals) ==
    /\ outcome = "done" /\ Components # {}
    /\ wave' = [seen |-> Len(rehearsals), approvals |-> approvals,
                recommended |-> [c \in Components |-> Recommended(estate[c])],
                eligible |-> \A i \in DOMAIN order : MayCutOver(Latest(order[i]), approvals)]
    /\ UNCHANGED <<vars, rehearsals>>

WaveNext ==
    \/ \E e \in Evidence : Rehearse(e)
    \/ \E estate \in Estates, a \in SUBSET WaveApprovers : EvaluateMigration(estate, a)

WaveSpec == Init /\ WaveInit /\ [][(Next /\ UNCHANGED waveVars) \/ WaveNext]_<<vars, waveVars>>

-----------------------------------------------------------------------------
(* Properties *)

\* Rehearsals the last report has not seen, of an asset of the wave, that are
\* the last ones of their asset.
Unseen ==
    {i \in (wave.seen + 1)..Len(rehearsals) :
        /\ rehearsals[i].asset \in Components
        /\ \A j \in (i + 1)..Len(rehearsals) : rehearsals[j].asset # rehearsals[i].asset}

\* From one report to the next a wave turns for cause and never otherwise.  One
\* that was eligible is blocked, under approvals at least as many, exactly if
\* some asset has failed a rehearsal since and has not passed a later one,
\* whatever the others passed; and one that was blocked becomes eligible only
\* by a rehearsal since that was passed and not failed again, or an approval.
WaveTurnsForCause ==
    [][wave # NoWave /\ wave' # wave =>
         /\ wave.eligible /\ wave.approvals \subseteq wave'.approvals =>
              (wave'.eligible <=> \A i \in Unseen : Rehearsed(rehearsals[i]))
         /\ ~wave.eligible /\ wave'.eligible =>
              \/ \E i \in Unseen : Rehearsed(rehearsals[i])
              \/ ~(wave'.approvals \subseteq wave.approvals)]_waveVars
=============================================================================
