----------------------------- MODULE CaseIngest -----------------------------
(***************************************************************************)
(* The part of the case ledger (resolution_network.py) that alert intake   *)
(* uses: the table `cases` as a sequence of rows, and what one `ingest`    *)
(* transaction does to it.  A case id is the position of its row: uuid4    *)
(* never returns an id twice, and rows are never deleted.                  *)
(***************************************************************************)
EXTENDS Naturals, Sequences

\* The column value SQL calls NULL, for case ids and lease times.  Neither
\* is ever 0 when present.
NULL == 0

CasesFor_NoLookup(cases, a) == {c \in DOMAIN cases : c = Len(cases) /\ cases[c].alert = a}

\* SELECT ... FROM cases WHERE workcell_id=? AND alert_id=?.  The registry
\* accepts one workcell id only, so the alert id alone is the key.
CasesFor(cases, a) == {c \in DOMAIN cases : cases[c].alert = a}

\* The INSERT branch: taken only when the SELECT found no row.
Ingested(cases, row) ==
    IF CasesFor(cases, row.alert) = {} THEN Append(cases, row) ELSE cases

\* Mutant: the case that is there is returned, whosever it is.
ScopeAgrees_Adopts(cases, row) == TRUE

\* `ingest` raises when the alert already has a case of another scope.
ScopeAgrees(cases, row) ==
    \A c \in CasesFor(cases, row.alert) : cases[c].scope = row.scope

\* No two cases were opened for one alert.
OneCasePerAlert(cases) ==
    \A c, d \in DOMAIN cases : cases[c].alert = cases[d].alert => c = d
=============================================================================
