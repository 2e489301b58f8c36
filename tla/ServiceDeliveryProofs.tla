----------------------- MODULE ServiceDeliveryProofs -----------------------
(***************************************************************************)
(* What ServiceDelivery promises for any number of requests, cases, drills *)
(* and processes.  Commands act on rows they read earlier; the proof rests  *)
(* on `Grow`, what no step of anyone takes back, and on `Held`, what a      *)
(* process knows between its steps and therefore keeps.                     *)
(***************************************************************************)
EXTENDS ServiceDelivery, TLAPS

\* What a process q knows of the pilots, cases, results and time it read.
Held(q, pil, cas, res, t) ==
    /\ q.pc \in {"activating", "activation_stamped"} => pil[q.pilot] # None
    /\ q.pc = "activation_stamped" => q.at <= t
    /\ q.pc \in {"pilot_active", "working", "work_stamped"} => IsActive(pil[q.pilot])
    /\ q.pc \in {"working", "work_stamped"} =>
         cas[q.case] # None /\ VmOf[ScopeOf[q.case]] = VmOf[pil[q.pilot].scope]
    /\ q.pc = "work_stamped" =>
         pil[q.pilot].active_at <= q.at /\ cas[q.case].created <= q.at
    /\ q.pc \in {"attaching", "attached"} =>
         MayAttach(cas[q.case], ScopeOf[q.case], res[q.drill])
    /\ q.pc = "drill_checked" => res[q.drill] # None /\ MayRecord(pil[q.pilot], res[q.drill])

\* No row is stamped in the future, and an active pilot has a time.  The row of
\* an open transaction is a new one or adds the verification to the old one.
RowTimes ==
    /\ \A c \in Cases : cases[c] # None => cases[c].created <= now
    /\ \A r \in Requests : IsActive(pilots[r]) =>
         pilots[r].active_at \in Nat /\ pilots[r].active_at <= now
    /\ ledger # None =>
         /\ ledger.row.created <= now
         /\ cases[ledger.case] # None =>
              ledger.row.created = cases[ledger.case].created /\ cases[ledger.case].verified = None

\* A pilot's request is no longer open.
RequestRows ==
    \A r \in Requests : pilots[r] # None =>
        requests[r] # None /\ requests[r].state = "onboarded"

IInv ==
    /\ TypeOK
    /\ RowTimes
    /\ RequestRows
    /\ \A p \in Procs : Held(proc[p], pilots, cases, results, now)
    /\ WorkInService
    /\ DrillsInService
    /\ AttachedAfterVerified

\* What no step takes back.
Grow ==
    /\ now' >= now
    /\ \A r \in Requests : pilots[r] # None => pilots'[r] # None
    /\ \A r \in Requests : IsActive(pilots[r]) => pilots'[r] = pilots[r]
    /\ \A c \in Cases : cases[c] # None =>
         /\ cases'[c] # None
         /\ cases'[c].created = cases[c].created
         /\ cases[c].verified # None => cases'[c].verified = cases[c].verified
    /\ \A d \in Drills : results[d] # None => results'[d] = results[d]

-----------------------------------------------------------------------------
(* What a process holds, by its place in the code *)

LEMMA ProcessFields ==
    ASSUME NEW q \in Process
    PROVE  /\ q.pc \in {"activating", "activation_stamped", "pilot_active", "working",
                        "work_stamped", "drill_checked", "attached"} => q.pilot \in Requests
           /\ q.pc \in {"pilot_active", "working", "work_stamped", "attaching", "attached"}
                => q.case \in Cases
           /\ q.pc \in {"attaching", "attached", "drill_checked"} => q.drill \in Drills
           /\ q.pc \in {"activation_stamped", "work_stamped"} => q.at \in Nat
           /\ q.pc = "attaching" => q.pilot \in Requests \cup {None}
           /\ q.pc \in {"reporting", "cases_read", "work_read", "reported"} => q \in Reporting
BY DEF Process, Reporting, Idle

LEMMA IdleHeld ==
    ASSUME NEW pil, NEW cas, NEW res, NEW t
    PROVE  Idle \in Process /\ Held(Idle, pil, cas, res, t)
BY DEF Idle, Process, Held

\* Knowledge is kept by every step.
LEMMA HeldKept ==
    ASSUME TypeOK, TypeOK', Grow, NEW q \in Process,
           Held(q, pilots, cases, results, now)
    PROVE  Held(q, pilots', cases', results', now')
<1>1. /\ q.pc \in {"activating", "activation_stamped", "pilot_active", "working",
                   "work_stamped", "drill_checked", "attached"} => q.pilot \in Requests
      /\ q.pc \in {"pilot_active", "working", "work_stamped", "attaching", "attached"}
           => q.case \in Cases
      /\ q.pc \in {"attaching", "attached", "drill_checked"} => q.drill \in Drills
      /\ q.pc \in {"activation_stamped", "work_stamped"} => q.at \in Nat
  BY ProcessFields
<1>2. now \in Nat /\ now' \in Nat
  BY DEF TypeOK
<1>3. /\ q.pc \in {"activating", "activation_stamped"} => pilots'[q.pilot] # None
      /\ q.pc = "activation_stamped" => q.at <= now'
  BY <1>1, <1>2 DEF Held, Grow
<1>4. q.pc \in {"pilot_active", "working", "work_stamped"} =>
        IsActive(pilots'[q.pilot]) /\ pilots'[q.pilot] = pilots[q.pilot]
  BY <1>1 DEF Held, Grow
<1>5. q.pc \in {"working", "work_stamped"} =>
        /\ cases'[q.case] # None /\ cases'[q.case].created = cases[q.case].created
        /\ VmOf[ScopeOf[q.case]] = VmOf[pilots'[q.pilot].scope]
  BY <1>1, <1>4 DEF Held, Grow
<1>6. q.pc = "work_stamped" =>
        pilots'[q.pilot].active_at <= q.at /\ cases'[q.case].created <= q.at
  BY <1>4, <1>5 DEF Held
<1>7. q.pc \in {"attaching", "attached"} =>
        MayAttach(cases'[q.case], ScopeOf[q.case], results'[q.drill])
  BY <1>1 DEF Held, Grow, MayAttach
<1>8. q.pc = "drill_checked" =>
        results'[q.drill] # None /\ MayRecord(pilots'[q.pilot], results'[q.drill])
  BY <1>1 DEF Held, Grow, MayRecord
<1>9. QED
  BY <1>3, <1>4, <1>5, <1>6, <1>7, <1>8 DEF Held

\* One process moves on to q; the others keep what they know.
LEMMA Move ==
    ASSUME IInv, TypeOK', Grow, NEW p \in Procs, NEW q \in Process,
           proc' = [proc EXCEPT ![p] = q],
           Held(q, pilots', cases', results', now')
    PROVE  \A r \in Procs : Held(proc'[r], pilots', cases', results', now')
<1>1. SUFFICES ASSUME NEW r \in Procs PROVE Held(proc'[r], pilots', cases', results', now')
  OBVIOUS
<1>2. CASE r = p
  BY <1>2 DEF IInv, TypeOK
<1>3. CASE r # p
  <2>1. proc'[r] = proc[r] /\ proc[r] \in Process
    BY <1>3 DEF IInv, TypeOK
  <2>2. Held(proc[r], pilots, cases, results, now)
    BY DEF IInv
  <2>3. QED
    BY <2>1, <2>2, HeldKept DEF IInv
<1>4. QED
  BY <1>2, <1>3

\* Nobody moves.
LEMMA Rest ==
    ASSUME IInv, TypeOK', Grow, UNCHANGED proc
    PROVE  \A r \in Procs : Held(proc'[r], pilots', cases', results', now')
<1>1. \A r \in Procs : proc[r] \in Process /\ Held(proc[r], pilots, cases, results, now)
  BY DEF IInv, TypeOK
<1>2. QED
  BY <1>1, HeldKept DEF IInv

-----------------------------------------------------------------------------
(* The rows that stand *)

LEMMA WorkKept ==
    ASSUME IInv, Grow, UNCHANGED work
    PROVE  WorkInService'
<1>1. SUFFICES ASSUME NEW i \in DOMAIN work
               PROVE  /\ pilots'[work[i].pilot] = pilots[work[i].pilot]
                      /\ cases'[work[i].case] # None
                      /\ cases'[work[i].case].created = cases[work[i].case].created
  BY DEF IInv, WorkInService
<1>2. work[i].pilot \in Requests /\ work[i].case \in Cases
  <2>1. work \in Seq(Work)
    BY DEF IInv, TypeOK
  <2>2. work[i] \in Work
    BY <2>1
  <2>3. QED
    BY <2>2 DEF Work
<1>3. IsActive(pilots[work[i].pilot]) /\ cases[work[i].case] # None
  BY DEF IInv, WorkInService, IsActive
<1>4. QED
  BY <1>2, <1>3 DEF Grow

LEMMA DrillsKept ==
    ASSUME IInv, Grow, UNCHANGED <<drills, followups>>
    PROVE  DrillsInService'
<1>1. \A row \in drills : /\ pilots'[row[1]] = pilots[row[1]]
                          /\ results'[row[2]] = results[row[2]]
  <2>1. SUFFICES ASSUME NEW row \in drills
                 PROVE  /\ pilots'[row[1]] = pilots[row[1]]
                        /\ results'[row[2]] = results[row[2]]
    OBVIOUS
  <2>2. row[1] \in Requests /\ row[2] \in Drills
    BY DEF IInv, TypeOK
  <2>3. IsActive(pilots[row[1]]) /\ results[row[2]] # None
    BY DEF IInv, DrillsInService, IsActive
  <2>4. QED
    BY <2>2, <2>3 DEF Grow
<1>2. QED
  BY <1>1 DEF IInv, DrillsInService

LEMMA AttachedKept ==
    ASSUME IInv, Grow, UNCHANGED attached
    PROVE  AttachedAfterVerified'
<1>1. SUFFICES ASSUME NEW row \in attached
               PROVE  /\ cases'[row[1]] # None /\ cases'[row[1]].verified = cases[row[1]].verified
                      /\ results'[row[2]] = results[row[2]]
  BY DEF IInv, AttachedAfterVerified
<1>2. row[1] \in Cases /\ row[2] \in Drills
  BY DEF IInv, TypeOK
<1>3. /\ cases[row[1]] # None /\ cases[row[1]].verified # None
      /\ results[row[2]] # None
  BY DEF IInv, AttachedAfterVerified
<1>4. QED
  BY <1>2, <1>3 DEF Grow

\* A step that writes none of the tables of the service.
LEMMA Quiet ==
    ASSUME IInv, NEW p \in Procs, NEW q \in Process,
           proc' = [proc EXCEPT ![p] = q],
           Held(q, pilots, cases, results, now),
           UNCHANGED <<now, cases, results, tables>>
    PROVE  IInv' /\ Grow
<1>1. Grow
  BY DEF Grow, tables, IInv, TypeOK
<1>2. TypeOK'
  <2>1. proc' \in [Procs -> Process]
    BY DEF IInv, TypeOK
  <2>2. QED
    BY <2>1 DEF IInv, TypeOK, tables
<1>3. Held(q, pilots', cases', results', now')
  BY DEF tables
<1>4. \A r \in Procs : Held(proc'[r], pilots', cases', results', now')
  BY <1>1, <1>2, <1>3, Move
<1>5. WorkInService' /\ DrillsInService' /\ AttachedAfterVerified'
  BY <1>1, WorkKept, DrillsKept, AttachedKept DEF tables
<1>6. RowTimes' /\ RequestRows'
  BY DEF IInv, RowTimes, RequestRows, tables
<1>7. QED
  BY <1>1, <1>2, <1>4, <1>5, <1>6 DEF IInv

-----------------------------------------------------------------------------
(* Steps of others: time, the ledger, the drills *)

LEMMA TickStep ==
    ASSUME IInv, Tick
    PROVE  IInv' /\ Grow
<1>1. TypeOK'
  BY DEF IInv, TypeOK, Tick, tables
<1>2. Grow
  BY DEF IInv, TypeOK, Tick, tables, Grow
<1>3. UNCHANGED <<cases, results, tables, proc>> /\ now' = now + 1 /\ now \in Nat
  BY DEF Tick, IInv, TypeOK
<1>4. \A r \in Procs : Held(proc'[r], pilots', cases', results', now')
  BY <1>1, <1>2, <1>3, Rest
<1>5. WorkInService' /\ DrillsInService' /\ AttachedAfterVerified'
  BY <1>2, <1>3, WorkKept, DrillsKept, AttachedKept DEF tables
<1>6. RequestRows'
  BY <1>3 DEF IInv, RequestRows, tables
<1>7. RowTimes'
  <2>1. /\ \A c \in Cases : cases[c] # None => cases[c].created \in Nat
        /\ ledger # None => ledger.row.created \in Nat
    BY DEF IInv, TypeOK, Case, Transaction
  <2>2. QED
    BY <1>3, <2>1 DEF IInv, RowTimes, tables, IsActive
<1>8. QED
  BY <1>1, <1>2, <1>4, <1>5, <1>6, <1>7 DEF IInv

\* A transaction that opens, or is rolled back, shows nothing to anybody.
LEMMA LedgerStep ==
    ASSUME IInv,
           \/ \E c \in Cases : OpenCase(c) \/ VerifyCase(c)
           \/ RollBackLedger
    PROVE  IInv' /\ Grow
<1>1. UNCHANGED <<now, cases, results, requests, pilots, work, drills, followups, attached, proc>>
  BY DEF OpenCase, VerifyCase, RollBackLedger
<1>2. /\ now \in Nat
      /\ ledger' # None =>
           /\ ledger' \in Transaction /\ ledger'.row.created <= now
           /\ cases[ledger'.case] # None =>
                ledger'.row.created = cases[ledger'.case].created
                /\ cases[ledger'.case].verified = None
  <2>1. now \in Nat
    BY DEF IInv, TypeOK
  <2>2. ASSUME NEW c \in Cases, OpenCase(c)
        PROVE  /\ ledger' \in Transaction /\ ledger'.row.created <= now
               /\ cases[ledger'.case] = None
    BY <2>1, <2>2 DEF OpenCase, Transaction, Case
  <2>3. ASSUME NEW c \in Cases, VerifyCase(c)
        PROVE  /\ ledger' \in Transaction /\ ledger'.row.created <= now
               /\ ledger'.row.created = cases[ledger'.case].created
               /\ cases[ledger'.case].verified = None
    <3>1. /\ cases[c] # None /\ cases[c].verified = None
          /\ ledger' = [case |-> c, row |-> [cases[c] EXCEPT !.verified = now]]
      BY <2>3 DEF VerifyCase
    <3>2. cases[c] \in Case /\ cases[c].created <= now
      BY <3>1 DEF IInv, TypeOK, RowTimes
    <3>3. [cases[c] EXCEPT !.verified = now] \in Case
      BY <2>1, <3>2 DEF Case
    <3>4. QED
      BY <3>1, <3>2, <3>3 DEF Transaction, Case
  <2>4. QED
    BY <2>1, <2>2, <2>3 DEF RollBackLedger
<1>3. TypeOK'
  BY <1>1, <1>2 DEF IInv, TypeOK
<1>4. Grow
  BY <1>1 DEF Grow, IInv, TypeOK
<1>5. \A r \in Procs : Held(proc'[r], pilots', cases', results', now')
  BY <1>1, <1>3, <1>4, Rest
<1>6. WorkInService' /\ DrillsInService' /\ AttachedAfterVerified'
  BY <1>1, <1>4, WorkKept, DrillsKept, AttachedKept
<1>7. RequestRows' /\ RowTimes'
  BY <1>1, <1>2 DEF IInv, RequestRows, RowTimes
<1>8. QED
  BY <1>3, <1>4, <1>5, <1>6, <1>7 DEF IInv

LEMMA CommitLedgerStep ==
    ASSUME IInv, CommitLedger
    PROVE  IInv' /\ Grow
<1> DEFINE c == ledger.case
           row == ledger.row
<1>1. /\ ledger # None /\ ledger' = None /\ cases' = [cases EXCEPT ![c] = row]
      /\ UNCHANGED <<now, results, requests, pilots, work, drills, followups, attached, proc>>
  BY DEF CommitLedger
<1>2. c \in Cases /\ row \in Case /\ row # None
  BY <1>1, NoneAssumption DEF IInv, TypeOK, Transaction
<1>3. /\ row.created <= now
      /\ cases[c] # None => row.created = cases[c].created /\ cases[c].verified = None
  BY <1>1 DEF IInv, RowTimes
<1>4. \A d \in Cases : cases'[d] = IF d = c THEN row ELSE cases[d]
  BY <1>1 DEF IInv, TypeOK
<1>5. TypeOK'
  <2>1. cases' \in [Cases -> Case \cup {None}]
    BY <1>1, <1>2 DEF IInv, TypeOK
  <2>2. QED
    BY <1>1, <2>1 DEF IInv, TypeOK
<1>6. Grow
  <2>1. \A d \in Cases : cases[d] # None =>
          /\ cases'[d] # None
          /\ cases'[d].created = cases[d].created
          /\ cases[d].verified # None => cases'[d].verified = cases[d].verified
    BY <1>2, <1>3, <1>4
  <2>2. QED
    BY <1>1, <2>1 DEF Grow, IInv, TypeOK
<1>7. \A r \in Procs : Held(proc'[r], pilots', cases', results', now')
  BY <1>1, <1>5, <1>6, Rest
<1>8. WorkInService' /\ DrillsInService' /\ AttachedAfterVerified'
  BY <1>1, <1>6, WorkKept, DrillsKept, AttachedKept
<1>9. RequestRows' /\ RowTimes'
  BY <1>1, <1>3, <1>4 DEF IInv, RequestRows, RowTimes
<1>10. QED
  BY <1>5, <1>6, <1>7, <1>8, <1>9 DEF IInv

LEMMA EvaluateStep ==
    ASSUME IInv, NEW d \in Drills, NEW s \in Scopes, NEW o \in {"passed", "failed"},
           EvaluateDrill(d, s, o)
    PROVE  IInv' /\ Grow
<1> DEFINE row == [scope |-> s, outcome |-> o, checked |-> now]
<1>1. /\ now \in Nat /\ results[d] = None /\ results' = [results EXCEPT ![d] = row]
      /\ UNCHANGED <<now, cases, tables, proc>>
  BY DEF EvaluateDrill, IInv, TypeOK
<1>2. row \in Result
  BY <1>1 DEF Result
<1>3. TypeOK'
  <2>1. results' \in [Drills -> Result \cup {None}]
    BY <1>1, <1>2 DEF IInv, TypeOK
  <2>2. QED
    BY <1>1, <2>1 DEF IInv, TypeOK, tables
<1>4. Grow
  BY <1>1 DEF Grow, IInv, TypeOK, tables
<1>5. \A r \in Procs : Held(proc'[r], pilots', cases', results', now')
  BY <1>1, <1>3, <1>4, Rest
<1>6. WorkInService' /\ DrillsInService' /\ AttachedAfterVerified'
  BY <1>1, <1>4, WorkKept, DrillsKept, AttachedKept DEF tables
<1>7. RequestRows' /\ RowTimes'
  BY <1>1 DEF IInv, RequestRows, RowTimes, tables
<1>8. QED
  BY <1>3, <1>4, <1>5, <1>6, <1>7 DEF IInv

-----------------------------------------------------------------------------
(* Requests and onboarding *)

LEMMA RequestStep ==
    ASSUME IInv, NEW r \in Requests, NEW vms \in {1, 2}, RequestPilot(r, vms)
    PROVE  IInv' /\ Grow
<1> DEFINE row == [vms |-> vms, state |-> "requested"]
<1>1. /\ requests[r] = None /\ requests' = [requests EXCEPT ![r] = row]
      /\ UNCHANGED <<now, cases, ledger, results, pilots, work, drills, followups, attached, proc>>
  BY DEF RequestPilot
<1>2. row \in Request
  BY DEF Request
<1>3. TypeOK'
  <2>1. requests' \in [Requests -> Request \cup {None}]
    BY <1>1, <1>2 DEF IInv, TypeOK
  <2>2. QED
    BY <1>1, <2>1 DEF IInv, TypeOK
<1>4. Grow
  BY <1>1 DEF Grow, IInv, TypeOK
<1>5. \A q \in Procs : Held(proc'[q], pilots', cases', results', now')
  BY <1>1, <1>3, <1>4, Rest
<1>6. WorkInService' /\ DrillsInService' /\ AttachedAfterVerified'
  BY <1>1, <1>4, WorkKept, DrillsKept, AttachedKept
<1>7. RequestRows' /\ RowTimes'
  BY <1>1 DEF IInv, TypeOK, RequestRows, RowTimes
<1>8. QED
  BY <1>3, <1>4, <1>5, <1>6, <1>7 DEF IInv

LEMMA OnboardStep ==
    ASSUME IInv, NEW r \in Requests, NEW s \in Scopes, Onboard(r, s)
    PROVE  IInv' /\ Grow
<1> DEFINE row == [scope |-> s, state |-> "onboarded", active_at |-> None]
           req == [requests[r] EXCEPT !.state = "onboarded"]
<1>1. /\ requests[r] # None /\ requests[r].state = "requested"
      /\ pilots' = [pilots EXCEPT ![r] = row] /\ requests' = [requests EXCEPT ![r] = req]
      /\ UNCHANGED <<now, cases, ledger, results, work, drills, followups, attached, proc>>
  BY DEF Onboard, MayOnboard
<1>2. pilots[r] = None
  BY <1>1 DEF IInv, RequestRows
<1>3. row \in Pilot /\ row # None
  BY NoneAssumption DEF Pilot
<1>4. req \in Request /\ req # None /\ req.state = "onboarded"
  BY <1>1, NoneAssumption DEF IInv, TypeOK, Request
<1>5. /\ \A q \in Requests : pilots'[q] = IF q = r THEN row ELSE pilots[q]
      /\ \A q \in Requests : requests'[q] = IF q = r THEN req ELSE requests[q]
  BY <1>1 DEF IInv, TypeOK
<1>6. TypeOK'
  <2>1. /\ pilots' \in [Requests -> Pilot \cup {None}]
        /\ requests' \in [Requests -> Request \cup {None}]
    BY <1>1, <1>3, <1>4 DEF IInv, TypeOK
  <2>2. QED
    BY <1>1, <2>1 DEF IInv, TypeOK
<1>7. Grow
  BY <1>1, <1>2, <1>3, <1>5 DEF Grow, IInv, TypeOK, IsActive
<1>8. \A q \in Procs : Held(proc'[q], pilots', cases', results', now')
  BY <1>1, <1>6, <1>7, Rest
<1>9. WorkInService' /\ DrillsInService' /\ AttachedAfterVerified'
  BY <1>1, <1>7, WorkKept, DrillsKept, AttachedKept
<1>10. RequestRows'
  BY <1>4, <1>5 DEF IInv, RequestRows
<1>11. RowTimes'
  <2>1. ~IsActive(row)
    BY DEF IsActive
  <2>2. QED
    BY <1>1, <1>5, <2>1 DEF IInv, RowTimes
<1>12. QED
  BY <1>6, <1>7, <1>8, <1>9, <1>10, <1>11 DEF IInv

-----------------------------------------------------------------------------
(* Steps that only read: the process moves to a q it has the facts for *)

LEMMA StartSteps ==
    ASSUME IInv, NEW p \in Procs,
           \/ \E r \in Requests : StartActivate(p, r)
           \/ \E r \in Requests, c \in Cases : StartWork(p, r, c)
           \/ \E r \in Requests, d \in Drills : StartRecordDrill(p, r, d)
           \/ \E c \in Cases, d \in Drills, r \in Requests \cup {None} : StartAttach(p, c, d, r)
    PROVE  IInv' /\ Grow
<1>1. ASSUME NEW r \in Requests, StartActivate(p, r)
      PROVE  IInv' /\ Grow
  <2> DEFINE q == [pc |-> "activating", pilot |-> r]
  <2>1. q \in Process
    BY DEF Process
  <2>2. Held(q, pilots, cases, results, now)
    BY <1>1 DEF StartActivate, Held
  <2>3. QED
    BY <1>1, <2>1, <2>2, Quiet DEF StartActivate
<1>2. ASSUME NEW r \in Requests, NEW c \in Cases, StartWork(p, r, c)
      PROVE  IInv' /\ Grow
  <2> DEFINE q == [pc |-> "pilot_active", pilot |-> r, case |-> c]
  <2>1. q \in Process
    BY DEF Process
  <2>2. Held(q, pilots, cases, results, now)
    BY <1>2 DEF StartWork, Held
  <2>3. QED
    BY <1>2, <2>1, <2>2, Quiet DEF StartWork
<1>3. ASSUME NEW r \in Requests, NEW d \in Drills, StartRecordDrill(p, r, d)
      PROVE  IInv' /\ Grow
  <2>1. DrillChecked(r, d) \in Process
    BY DEF Process, DrillChecked
  <2>2. Held(DrillChecked(r, d), pilots, cases, results, now)
    BY <1>3 DEF StartRecordDrill, Held, DrillChecked
  <2>3. QED
    BY <1>3, <2>1, <2>2, Quiet DEF StartRecordDrill
<1>4. ASSUME NEW c \in Cases, NEW d \in Drills, NEW r \in Requests \cup {None},
             StartAttach(p, c, d, r)
      PROVE  IInv' /\ Grow
  <2> DEFINE q == [pc |-> "attaching", case |-> c, drill |-> d, pilot |-> r]
  <2>1. q \in Process
    BY DEF Process
  <2>2. Held(q, pilots, cases, results, now)
    BY <1>4 DEF StartAttach, Held
  <2>3. QED
    BY <1>4, <2>1, <2>2, Quiet DEF StartAttach
<1>5. QED
  BY <1>1, <1>2, <1>3, <1>4

LEMMA StampActivationStep ==
    ASSUME IInv, NEW p \in Procs, StampActivation(p)
    PROVE  IInv' /\ Grow
<1> DEFINE q == [pc |-> "activation_stamped", pilot |-> proc[p].pilot, at |-> now]
<1>1. proc[p] \in Process /\ proc[p].pc = "activating" /\ now \in Nat
  BY DEF IInv, TypeOK, StampActivation
<1>2. proc[p].pilot \in Requests
  BY <1>1, ProcessFields
<1>3. q \in Process
  BY <1>1, <1>2 DEF Process
<1>4. Held(q, pilots, cases, results, now)
  <2>1. Held(proc[p], pilots, cases, results, now)
    BY DEF IInv
  <2>2. QED
    BY <1>1, <2>1 DEF Held
<1>5. QED
  BY <1>3, <1>4, Quiet DEF StampActivation

LEMMA ReadCaseStep ==
    ASSUME IInv, NEW p \in Procs, ReadCase(p)
    PROVE  IInv' /\ Grow
<1> DEFINE c == proc[p].case
           r == proc[p].pilot
           q == [pc |-> "working", pilot |-> r, case |-> c]
<1>1. proc[p] \in Process /\ proc[p].pc = "pilot_active"
  BY DEF IInv, TypeOK, ReadCase
<1>2. r \in Requests /\ c \in Cases
  BY <1>1, ProcessFields
<1>3. Held(proc[p], pilots, cases, results, now)
  BY DEF IInv
<1>4. CASE cases[c] # None /\ Matches(pilots[r].scope, ScopeOf[c])
  <2>1. q \in Process
    BY <1>2 DEF Process
  <2>2. Held(q, pilots, cases, results, now)
    BY <1>1, <1>3, <1>4 DEF Held, Matches
  <2>3. proc' = [proc EXCEPT ![p] = q] /\ UNCHANGED <<now, cases, results, tables>>
    BY <1>4 DEF ReadCase
  <2>4. QED
    BY <2>1, <2>2, <2>3, Quiet
<1>5. CASE ~(cases[c] # None /\ Matches(pilots[r].scope, ScopeOf[c]))
  <2>1. proc' = [proc EXCEPT ![p] = Idle] /\ UNCHANGED <<now, cases, results, tables>>
    BY <1>5 DEF ReadCase
  <2>2. QED
    BY <2>1, IdleHeld, Quiet
<1>6. QED
  BY <1>4, <1>5

LEMMA StampWorkStep ==
    ASSUME IInv, NEW p \in Procs, StampWork(p)
    PROVE  IInv' /\ Grow
<1> DEFINE c == proc[p].case
           r == proc[p].pilot
           q == [pc |-> "work_stamped", pilot |-> r, case |-> c, at |-> now]
<1>1. proc[p] \in Process /\ proc[p].pc = "working" /\ now \in Nat
  BY DEF IInv, TypeOK, StampWork
<1>2. r \in Requests /\ c \in Cases
  BY <1>1, ProcessFields
<1>3. q \in Process
  BY <1>1, <1>2 DEF Process
<1>4. /\ IsActive(pilots[r]) /\ cases[c] # None
      /\ VmOf[ScopeOf[c]] = VmOf[pilots[r].scope]
  <2>1. Held(proc[p], pilots, cases, results, now)
    BY DEF IInv
  <2>2. QED
    BY <1>1, <2>1 DEF Held
<1>5. pilots[r].active_at <= now /\ cases[c].created <= now
  BY <1>2, <1>4 DEF IInv, RowTimes
<1>6. Held(q, pilots, cases, results, now)
  BY <1>4, <1>5 DEF Held
<1>7. QED
  BY <1>3, <1>6, Quiet DEF StampWork

LEMMA RecordAttachedStep ==
    ASSUME IInv, NEW p \in Procs, RecordAttached(p)
    PROVE  IInv' /\ Grow
<1> DEFINE r == proc[p].pilot
           d == proc[p].drill
<1>1. proc[p] \in Process /\ proc[p].pc = "attached"
  BY DEF IInv, TypeOK, RecordAttached
<1>2. r \in Requests /\ d \in Drills
  BY <1>1, ProcessFields
<1>3. results[d] # None
  <2>1. Held(proc[p], pilots, cases, results, now)
    BY DEF IInv
  <2>2. QED
    BY <1>1, <2>1 DEF Held, MayAttach
<1>4. CASE MayRecord(pilots[r], results[d])
  <2>1. DrillChecked(r, d) \in Process
    BY <1>2 DEF Process, DrillChecked
  <2>2. Held(DrillChecked(r, d), pilots, cases, results, now)
    BY <1>3, <1>4 DEF Held, DrillChecked
  <2>3. proc' = [proc EXCEPT ![p] = DrillChecked(r, d)]
        /\ UNCHANGED <<now, cases, results, tables>>
    BY <1>4 DEF RecordAttached
  <2>4. QED
    BY <2>1, <2>2, <2>3, Quiet
<1>5. CASE ~MayRecord(pilots[r], results[d])
  <2>1. proc' = [proc EXCEPT ![p] = Idle] /\ UNCHANGED <<now, cases, results, tables>>
    BY <1>5 DEF RecordAttached
  <2>2. QED
    BY <2>1, IdleHeld, Quiet
<1>6. QED
  BY <1>4, <1>5

\* The report only ever fills in its lists.
LEMMA ReportSteps ==
    ASSUME IInv, NEW p \in Procs,
           \/ \E r \in Requests, m \in Month : StartReport(p, r, m)
           \/ ReadCases(p) \/ ReadWork(p) \/ ReadDrills(p)
    PROVE  IInv' /\ Grow
<1>1. \A q \in Reporting : q \in Process /\ Held(q, pilots, cases, results, now)
  BY DEF Process, Reporting, Held
<1>2. proc[p] \in Process
  BY DEF IInv, TypeOK
<1>3. ASSUME NEW r \in Requests, NEW m \in Month, StartReport(p, r, m)
      PROVE  IInv' /\ Grow
  <2> DEFINE q == [pc |-> "reporting", pilot |-> r, row |-> pilots[r], month |-> m,
                   since |-> now, open |-> {}, cases |-> {}, work |-> {}, drills |-> {}]
  <2>1. pilots[r] \in Pilot /\ now \in Nat
    BY <1>3 DEF StartReport, IInv, TypeOK
  <2>2. q \in Reporting
    BY <2>1 DEF Reporting
  <2>3. QED
    BY <1>1, <1>3, <2>2, Quiet DEF StartReport
<1>4. CASE ReadCases(p)
  <2> DEFINE found == CasesIn(proc[p].row, proc[p].month)
             pending == IF ledger = None THEN {} ELSE {ledger.case}
             q == [proc[p] EXCEPT !.pc = "cases_read", !.open = pending, !.cases = found]
  <2>1. proc[p] \in Reporting
    BY <1>2, <1>4, ProcessFields DEF ReadCases
  <2>2. found \subseteq Cases /\ pending \subseteq Cases
    BY DEF CasesIn, IInv, TypeOK, Transaction
  <2>3. q \in Reporting
    BY <2>1, <2>2 DEF Reporting
  <2>4. proc' = [proc EXCEPT ![p] = q] /\ UNCHANGED <<now, cases, results, tables>>
    BY <1>4 DEF ReadCases
  <2>5. QED
    BY <1>1, <2>3, <2>4, Quiet
<1>5. CASE ReadWork(p)
  <2> DEFINE found == WorkIn(proc[p].pilot, proc[p].month)
             q == [proc[p] EXCEPT !.pc = "work_read", !.work = found]
  <2>1. proc[p] \in Reporting
    BY <1>2, <1>5, ProcessFields DEF ReadWork
  <2>2. found \subseteq Nat \ {0}
    <3>1. work \in Seq(Work)
      BY DEF IInv, TypeOK
    <3>2. QED
      BY <3>1 DEF WorkIn
  <2>3. q \in Reporting
    BY <2>1, <2>2 DEF Reporting
  <2>4. proc' = [proc EXCEPT ![p] = q] /\ UNCHANGED <<now, cases, results, tables>>
    BY <1>5 DEF ReadWork
  <2>5. QED
    BY <1>1, <2>3, <2>4, Quiet
<1>6. CASE ReadDrills(p)
  <2> DEFINE found == DrillsIn(proc[p].pilot, proc[p].month)
             q == [proc[p] EXCEPT !.pc = "reported", !.drills = found]
  <2>1. proc[p] \in Reporting
    BY <1>2, <1>6, ProcessFields DEF ReadDrills
  <2>2. found \subseteq Drills
    BY DEF DrillsIn
  <2>3. q \in Reporting
    BY <2>1, <2>2 DEF Reporting
  <2>4. proc' = [proc EXCEPT ![p] = q] /\ UNCHANGED <<now, cases, results, tables>>
    BY <1>6 DEF ReadDrills
  <2>5. QED
    BY <1>1, <2>3, <2>4, Quiet
<1>7. QED
  BY <1>3, <1>4, <1>5, <1>6

-----------------------------------------------------------------------------
(* Steps that write *)

LEMMA CommitActivationStep ==
    ASSUME IInv, NEW p \in Procs, CommitActivation(p)
    PROVE  IInv' /\ Grow
<1> DEFINE r == proc[p].pilot
           row == [pilots[r] EXCEPT !.state = "active", !.active_at = proc[p].at]
<1>1. proc[p] \in Process /\ proc[p].pc = "activation_stamped"
  BY DEF IInv, TypeOK, CommitActivation
<1>2. r \in Requests /\ proc[p].at \in Nat
  BY <1>1, ProcessFields
<1>3. pilots[r] # None /\ proc[p].at <= now
  <2>1. Held(proc[p], pilots, cases, results, now)
    BY DEF IInv
  <2>2. QED
    BY <1>1, <2>1 DEF Held
<1>4. pilots[r] \in Pilot
  BY <1>2, <1>3 DEF IInv, TypeOK
<1>5. CASE ~StillOnboarded(pilots[r])
  <2>1. proc' = [proc EXCEPT ![p] = Idle] /\ UNCHANGED <<now, cases, results, tables>>
    BY <1>5 DEF CommitActivation, tables
  <2>2. QED
    BY <2>1, IdleHeld, Quiet
<1>6. CASE StillOnboarded(pilots[r])
  <2>1. row \in Pilot /\ row # None /\ row.state = "active" /\ row.active_at = proc[p].at
    BY <1>2, <1>4, NoneAssumption DEF Pilot
  <2>2. /\ pilots' = [pilots EXCEPT ![r] = row] /\ proc' = [proc EXCEPT ![p] = Idle]
        /\ UNCHANGED <<now, cases, ledger, results, requests, work, drills, followups, attached>>
    BY <1>6 DEF CommitActivation
  <2>3. \A s \in Requests : pilots'[s] = IF s = r THEN row ELSE pilots[s]
    BY <2>2 DEF IInv, TypeOK
  <2>4. TypeOK'
    <3>1. pilots' \in [Requests -> Pilot \cup {None}] /\ proc' \in [Procs -> Process]
      BY <2>1, <2>2, IdleHeld DEF IInv, TypeOK
    <3>2. QED
      BY <2>2, <3>1 DEF IInv, TypeOK
  <2>5. Grow
    BY <1>6, <2>1, <2>2, <2>3 DEF Grow, IInv, TypeOK, IsActive, StillOnboarded
  <2>6. \A q \in Procs : Held(proc'[q], pilots', cases', results', now')
    BY <2>2, <2>4, <2>5, IdleHeld, Move
  <2>7. WorkInService' /\ DrillsInService' /\ AttachedAfterVerified'
    BY <2>2, <2>5, WorkKept, DrillsKept, AttachedKept
  <2>8. RequestRows'
    BY <1>3, <2>2, <2>3 DEF IInv, RequestRows
  <2>9. RowTimes'
    BY <1>2, <1>3, <2>1, <2>2, <2>3 DEF IInv, RowTimes
  <2>10. QED
    BY <2>4, <2>5, <2>6, <2>7, <2>8, <2>9 DEF IInv
<1>7. QED
  BY <1>5, <1>6

LEMMA InsertWorkStep ==
    ASSUME IInv, NEW p \in Procs, InsertWork(p)
    PROVE  IInv' /\ Grow
<1> DEFINE row == [pilot |-> proc[p].pilot, case |-> proc[p].case, at |-> proc[p].at]
<1>1. /\ proc[p] \in Process /\ proc[p].pc = "work_stamped"
      /\ work \in Seq(Work) /\ work' = Append(work, row)
      /\ proc' = [proc EXCEPT ![p] = Idle]
      /\ UNCHANGED <<now, cases, ledger, results, requests, pilots, drills, followups, attached>>
  BY DEF IInv, TypeOK, InsertWork
<1>2. row \in Work
  BY <1>1, ProcessFields DEF Work
<1>3. work' \in Seq(Work) /\ Len(work') = Len(work) + 1
  BY <1>1, <1>2
<1>4. TypeOK'
  <2>1. proc' \in [Procs -> Process]
    BY <1>1, IdleHeld DEF IInv, TypeOK
  <2>2. QED
    BY <1>1, <1>3, <2>1 DEF IInv, TypeOK
<1>5. Grow
  BY <1>1 DEF Grow, IInv, TypeOK
<1>6. \A q \in Procs : Held(proc'[q], pilots', cases', results', now')
  BY <1>1, <1>4, <1>5, IdleHeld, Move
<1>7. DrillsInService' /\ AttachedAfterVerified'
  BY <1>1, <1>5, DrillsKept, AttachedKept
<1>8. WorkInService'
  <2>1. SUFFICES ASSUME NEW i \in DOMAIN work'
                 PROVE  /\ IsActive(pilots[work'[i].pilot])
                        /\ pilots[work'[i].pilot].active_at <= work'[i].at
                        /\ cases[work'[i].case] # None
                        /\ cases[work'[i].case].created <= work'[i].at
                        /\ VmOf[ScopeOf[work'[i].case]] = VmOf[pilots[work'[i].pilot].scope]
    BY <1>1 DEF WorkInService, IsActive
  <2>2. CASE i \in DOMAIN work
    <3>1. work'[i] = work[i]
      BY <1>1, <2>2
    <3>2. QED
      BY <2>2, <3>1 DEF IInv, WorkInService, IsActive
  <2>3. CASE i \notin DOMAIN work
    <3>1. work'[i] = row
      BY <1>1, <1>3, <2>3
    <3>2. Held(proc[p], pilots, cases, results, now)
      BY DEF IInv
    <3>3. QED
      BY <1>1, <3>1, <3>2 DEF Held
  <2>4. QED
    BY <2>2, <2>3
<1>9. RequestRows' /\ RowTimes'
  BY <1>1 DEF IInv, RequestRows, RowTimes
<1>10. QED
  BY <1>4, <1>5, <1>6, <1>7, <1>8, <1>9 DEF IInv

LEMMA InsertDrillStep ==
    ASSUME IInv, NEW p \in Procs, InsertDrill(p)
    PROVE  IInv' /\ Grow
<1> DEFINE r == proc[p].pilot
           d == proc[p].drill
           row == <<r, d>>
<1>1. /\ proc[p] \in Process /\ proc[p].pc = "drill_checked"
      /\ drills' = drills \cup {row}
      /\ followups' = followups \cup FollowupsOf(results[d], row)
      /\ proc' = [proc EXCEPT ![p] = Idle]
      /\ UNCHANGED <<now, cases, ledger, results, requests, pilots, work, attached>>
  BY DEF IInv, TypeOK, InsertDrill
<1>2. r \in Requests /\ d \in Drills
  BY <1>1, ProcessFields
<1>3. results[d] # None /\ MayRecord(pilots[r], results[d])
  <2>1. Held(proc[p], pilots, cases, results, now)
    BY DEF IInv
  <2>2. QED
    BY <1>1, <2>1 DEF Held
<1>4. results[d] \in Result /\ pilots[r] \in Pilot /\ pilots[r].active_at \in Nat
  BY <1>2, <1>3 DEF IInv, TypeOK, RowTimes, MayRecord, IsActive
<1>5. TypeOK'
  <2>1. proc' \in [Procs -> Process]
    BY <1>1, IdleHeld DEF IInv, TypeOK
  <2>2. drills' \subseteq Requests \X Drills /\ followups' \subseteq Requests \X Drills
    BY <1>1, <1>2 DEF IInv, TypeOK, FollowupsOf
  <2>3. QED
    BY <1>1, <2>1, <2>2 DEF IInv, TypeOK
<1>6. Grow
  BY <1>1 DEF Grow, IInv, TypeOK
<1>7. \A q \in Procs : Held(proc'[q], pilots', cases', results', now')
  BY <1>1, <1>5, <1>6, IdleHeld, Move
<1>8. WorkInService' /\ AttachedAfterVerified'
  BY <1>1, <1>6, WorkKept, AttachedKept
<1>9. DrillsInService'
  <2>1. /\ results[row[2]] # None /\ pilots[row[1]] # None /\ pilots[row[1]].state = "active"
        /\ pilots[row[1]].active_at <= results[row[2]].checked
        /\ VmOf[pilots[row[1]].scope] = VmOf[results[row[2]].scope]
    <3>1. results[d].checked \in Nat
      BY <1>4 DEF Result
    <3>2. QED
      BY <1>3, <1>4, <3>1 DEF MayRecord, IsActive, Matches
  <2>2. followups' = {x \in drills' : results[x[2]].outcome = "failed"}
    BY <1>1 DEF IInv, DrillsInService, FollowupsOf
  <2>3. QED
    BY <1>1, <2>1, <2>2 DEF IInv, DrillsInService
<1>10. RequestRows' /\ RowTimes'
  BY <1>1 DEF IInv, RequestRows, RowTimes
<1>11. QED
  BY <1>5, <1>6, <1>7, <1>8, <1>9, <1>10 DEF IInv

LEMMA InsertAttachedStep ==
    ASSUME IInv, NEW p \in Procs, InsertAttached(p)
    PROVE  IInv' /\ Grow
<1> DEFINE row == <<proc[p].case, proc[p].drill>>
           q == IF proc[p].pilot = None THEN Idle ELSE [proc[p] EXCEPT !.pc = "attached"]
<1>1. /\ proc[p] \in Process /\ proc[p].pc = "attaching"
      /\ attached' = attached \cup {row} /\ proc' = [proc EXCEPT ![p] = q]
      /\ UNCHANGED <<now, cases, ledger, results, requests, pilots, work, drills, followups>>
  BY DEF IInv, TypeOK, InsertAttached
<1>2. /\ proc[p] \in [pc : {"attaching"}, case : Cases, drill : Drills,
                       pilot : Requests \cup {None}]
  BY <1>1 DEF Process, Reporting, Idle
<1>3. Held(proc[p], pilots, cases, results, now)
  BY DEF IInv
<1>4. q \in Process /\ Held(q, pilots, cases, results, now)
  <2>1. CASE proc[p].pilot = None
    BY <2>1, IdleHeld
  <2>2. CASE proc[p].pilot # None
    <3>1. q \in [pc : {"attached"}, case : Cases, drill : Drills, pilot : Requests]
      BY <1>2, <2>2
    <3>2. q.pc = "attached" /\ q.case = proc[p].case /\ q.drill = proc[p].drill
      BY <1>2, <2>2
    <3>3. q \in Process
      BY <3>1 DEF Process
    <3>4. QED
      BY <1>1, <1>3, <3>2, <3>3 DEF Held
  <2>3. QED
    BY <2>1, <2>2
<1>5. TypeOK'
  <2>1. proc' \in [Procs -> Process] /\ attached' \subseteq Cases \X Drills
    BY <1>1, <1>2, <1>4 DEF IInv, TypeOK
  <2>2. QED
    BY <1>1, <2>1 DEF IInv, TypeOK
<1>6. Grow
  BY <1>1 DEF Grow, IInv, TypeOK
<1>7. \A s \in Procs : Held(proc'[s], pilots', cases', results', now')
  BY <1>1, <1>4, <1>5, <1>6, Move
<1>8. WorkInService' /\ DrillsInService'
  BY <1>1, <1>6, WorkKept, DrillsKept
<1>9. AttachedAfterVerified'
  <2>1. MayAttach(cases[row[1]], ScopeOf[row[1]], results[row[2]])
    BY <1>1, <1>3 DEF Held
  <2>2. cases[row[1]] \in Case /\ results[row[2]] \in Result
    BY <1>2, <2>1 DEF MayAttach, IInv, TypeOK
  <2>3. /\ cases[row[1]] # None /\ cases[row[1]].verified # None /\ results[row[2]] # None
        /\ cases[row[1]].verified <= results[row[2]].checked
        /\ results[row[2]].scope = ScopeOf[row[1]]
    BY <2>1, <2>2 DEF MayAttach, Case, Result
  <2>4. QED
    BY <1>1, <2>3 DEF IInv, AttachedAfterVerified
<1>10. RequestRows' /\ RowTimes'
  BY <1>1 DEF IInv, RequestRows, RowTimes
<1>11. QED
  BY <1>5, <1>6, <1>7, <1>8, <1>9, <1>10 DEF IInv

-----------------------------------------------------------------------------
(* The invariant and what follows *)

LEMMA InitHolds == Init => IInv
<1> SUFFICES ASSUME Init PROVE IInv
  OBVIOUS
<1>1. TypeOK
  BY IdleHeld DEF Init, TypeOK
<1>2. RowTimes /\ RequestRows
  BY DEF Init, RowTimes, RequestRows, IsActive
<1>3. \A p \in Procs : Held(proc[p], pilots, cases, results, now)
  BY IdleHeld DEF Init
<1>4. WorkInService /\ DrillsInService /\ AttachedAfterVerified
  BY DEF Init, WorkInService, DrillsInService, AttachedAfterVerified
<1>5. QED
  BY <1>1, <1>2, <1>3, <1>4 DEF IInv

LEMMA NextHolds == IInv /\ [Next]_vars => IInv' /\ Grow
<1> SUFFICES ASSUME IInv, [Next]_vars PROVE IInv' /\ Grow
  OBVIOUS
<1>1. CASE UNCHANGED vars
  <2>1. UNCHANGED <<now, cases, results, tables, proc>>
    BY <1>1 DEF vars, tables
  <2>2. Grow /\ TypeOK' /\ RowTimes' /\ RequestRows'
    BY <2>1 DEF Grow, IInv, TypeOK, RowTimes, RequestRows, tables
  <2>3. \A p \in Procs : Held(proc'[p], pilots', cases', results', now')
    BY <2>1, <2>2, Rest
  <2>4. WorkInService' /\ DrillsInService' /\ AttachedAfterVerified'
    BY <2>1, <2>2, WorkKept, DrillsKept, AttachedKept DEF tables
  <2>5. QED
    BY <2>2, <2>3, <2>4 DEF IInv
<1>2. CASE Outside
  BY <1>2, TickStep, LedgerStep, CommitLedgerStep, EvaluateStep DEF Outside
<1>3. ASSUME NEW r \in Requests, NEW vms \in {1, 2}, RequestPilot(r, vms)
      PROVE  IInv' /\ Grow
  BY <1>3, RequestStep
<1>4. ASSUME NEW r \in Requests, NEW s \in Scopes, Onboard(r, s)
      PROVE  IInv' /\ Grow
  BY <1>4, OnboardStep
<1>5. ASSUME NEW p \in Procs, Command(p)
      PROVE  IInv' /\ Grow
  <2>1. CASE End(p)
    BY <2>1, IdleHeld, Quiet DEF End
  <2>2. QED
    BY <1>5, <2>1, StartSteps, StampActivationStep, CommitActivationStep, ReadCaseStep,
       StampWorkStep, InsertWorkStep, InsertDrillStep, InsertAttachedStep,
       RecordAttachedStep, ReportSteps DEF Command
<1>6. QED
  BY <1>1, <1>2, <1>3, <1>4, <1>5 DEF Next

\* Every reachable state of the delivery tables and of the commands at work on
\* them is well-typed: no command computes with a row that is not there.
THEOREM TypeCorrect == Spec => []TypeOK
<1>1. IInv => TypeOK
  BY DEF IInv
<1>2. QED
  BY <1>1, InitHolds, NextHolds, PTL DEF Spec

\* Work is only ever recorded within the service: active pilot, its VM, after
\* activation, whatever happened since record_work read its rows.
THEOREM WorkStaysInService == Spec => []WorkInService
<1>1. IInv => WorkInService
  BY DEF IInv
<1>2. QED
  BY <1>1, InitHolds, NextHolds, PTL DEF Spec

\* A pilot's drills are of its VM and its time, with a follow-up for exactly
\* the failed ones.
THEOREM DrillsStayInService == Spec => []DrillsInService
<1>1. IInv => DrillsInService
  BY DEF IInv
<1>2. QED
  BY <1>1, InitHolds, NextHolds, PTL DEF Spec

\* A case shows a drill only if it was probed after the case was verified.
THEOREM AttachedFollowsVerification == Spec => []AttachedAfterVerified
<1>1. IInv => AttachedAfterVerified
  BY DEF IInv
<1>2. QED
  BY <1>1, InitHolds, NextHolds, PTL DEF Spec

\* All rows that are delivered for a pilot or a case are within its service.
THEOREM RowsStayInService == Spec => []RowsInService
<1>1. WorkInService /\ DrillsInService /\ AttachedAfterVerified => RowsInService
  BY DEF RowsInService
<1>2. QED
  BY <1>1, WorkStaysInService, DrillsStayInService, AttachedFollowsVerification, PTL

\* An activation is final, whoever else activates or onboards.
THEOREM ActivatedOnce == Spec => ActivationStands
<1>1. IInv /\ [Next]_vars =>
        [\A r \in Requests : IsActive(pilots[r]) => pilots'[r] = pilots[r]]_vars
  BY NextHolds DEF Grow
<1>2. QED
  BY <1>1, InitHolds, NextHolds, PTL DEF Spec, ActivationStands

-----------------------------------------------------------------------------
(* The calendar *)

LEMMA ClockMonth ==
    ASSUME NEW t \in Nat
    PROVE  MonthIndex(t) \in Nat /\ t % MonthLength \in Nat
<1>1. FirstMonth \in Nat /\ MonthLength \in Nat \ {0}
  BY CalendarAssumption
<1>2. t \div MonthLength \in Nat /\ t % MonthLength \in Nat
  BY <1>1
<1>3. QED
  BY <1>1, <1>2 DEF MonthIndex

\* The month's two bounds hold exactly its own timestamps, in December too.
LEMMA MonthOrder ==
    ASSUME NEW s \in Nat \X (1..12) \X (Nat \ {0}), NEW m \in Nat \X (1..12)
    PROVE  (~Before(s, FirstDay(m)) /\ Before(s, FirstDay(NextMonth(m))))
           <=> m[1] = s[1] /\ m[2] = s[2]
<1>1. FirstDay(m) = <<m[1], m[2], 0>>
  BY DEF FirstDay
<1>2. CASE m[2] = 12
  <2>1. FirstDay(NextMonth(m)) = <<m[1] + 1, 1, 0>>
    BY <1>2 DEF NextMonth, FirstDay
  <2>2. QED
    BY <1>1, <1>2, <2>1 DEF Before
<1>3. CASE m[2] # 12
  <2>1. FirstDay(NextMonth(m)) = <<m[1], m[2] + 1, 0>>
    BY <1>3 DEF NextMonth, FirstDay
  <2>2. QED
    BY <1>1, <1>3, <2>1 DEF Before
<1>4. QED
  BY <1>2, <1>3

\* Of all months, a stamp lies in the one its clock reading has.
LEMMA MonthPartition ==
    ASSUME NEW t \in Nat, NEW i \in Nat
    PROVE  InMonth(t, MonthAt(i)) <=> MonthAt(i) = MonthAt(MonthIndex(t))
<1> DEFINE k == MonthIndex(t)
           s == Stamp(t)
           m == MonthAt(i)
           n == MonthAt(k)
<1>1. k \in Nat /\ (t % MonthLength) + 1 \in Nat \ {0}
  BY ClockMonth
<1>2. m \in Nat \X (1..12) /\ n \in Nat \X (1..12)
  BY <1>1 DEF MonthAt
<1>3. s = <<n[1], n[2], (t % MonthLength) + 1>>
  BY DEF Stamp
<1>4. s \in Nat \X (1..12) \X (Nat \ {0})
  BY <1>1, <1>2, <1>3
<1>5. s[1] = n[1] /\ s[2] = n[2]
  BY <1>3
<1> HIDE DEF s, m, n
<1>6. (~Before(s, FirstDay(m)) /\ Before(s, FirstDay(NextMonth(m))))
      <=> m[1] = s[1] /\ m[2] = s[2]
  BY <1>2, <1>4, MonthOrder
<1>7. m[1] = n[1] /\ m[2] = n[2] <=> m = n
  BY <1>2
<1>8. InMonth(t, m) <=> m = n
  BY <1>5, <1>6, <1>7 DEF InMonth, s
<1>9. QED
  BY <1>8 DEF m, n

\* Each case and each hour of work is reported in its own month and in no
\* other, for any clock and any month length.
THEOREM MonthsCountOnce == Spec => []CountedOnce
<1>1. TypeOK => CountedOnce
  <2>1. SUFFICES ASSUME TypeOK, NEW r \in Requests, NEW m \in Month
                 PROVE  /\ \A i \in DOMAIN work :
                             i \in WorkIn(r, m) <=>
                               work[i].pilot = r /\ m = MonthAt(MonthIndex(work[i].at))
                        /\ \A c \in Cases :
                             c \in CasesIn(pilots[r], m) <=>
                               /\ cases[c] # None /\ VmOf[ScopeOf[c]] = VmOf[pilots[r].scope]
                               /\ m = MonthAt(MonthIndex(cases[c].created))
    BY DEF CountedOnce
  <2>2. PICK x \in Nat : m = MonthAt(x)
    <3>1. PICK t \in 0..MaxNow : m = MonthAt(MonthIndex(t))
      BY <2>1 DEF Month
    <3>2. t \in Nat
      BY BoundAssumption
    <3>3. QED
      BY <3>1, <3>2, ClockMonth
  <2>3. \A t \in Nat : InMonth(t, m) <=> m = MonthAt(MonthIndex(t))
    BY <2>2, MonthPartition
  <2>4. \A i \in DOMAIN work : work[i].at \in Nat
    <3>1. work \in Seq(Work)
      BY <2>1 DEF TypeOK
    <3>2. \A i \in DOMAIN work : work[i] \in Work
      BY <3>1
    <3>3. QED
      BY <3>2 DEF Work
  <2>5. \A c \in Cases : cases[c] # None => cases[c].created \in Nat
    BY <2>1 DEF TypeOK, Case
  <2>6. \A i \in DOMAIN work : i \in WorkIn(r, m) <=>
          work[i].pilot = r /\ m = MonthAt(MonthIndex(work[i].at))
    BY <2>3, <2>4 DEF WorkIn
  <2>7. \A c \in Cases : c \in CasesIn(pilots[r], m) <=>
          /\ cases[c] # None /\ VmOf[ScopeOf[c]] = VmOf[pilots[r].scope]
          /\ m = MonthAt(MonthIndex(cases[c].created))
    BY <2>3, <2>5 DEF CasesIn, Matches
  <2>8. QED
    BY <2>6, <2>7
<1>2. QED
  BY <1>1, TypeCorrect, PTL

\* A later clock reading lies in no earlier month.
LEMMA MonthsPass ==
    ASSUME NEW t \in Nat, NEW u \in Nat, t <= u
    PROVE  MonthIndex(t) \in Nat /\ MonthIndex(u) \in Nat /\ MonthIndex(t) <= MonthIndex(u)
<1> DEFINE L == MonthLength
           a == t \div L
           b == u \div L
<1>1. FirstMonth \in Nat /\ L \in Nat \ {0}
  BY CalendarAssumption
<1>2. a \in Nat /\ b \in Nat
  BY <1>1
<1>3. /\ t = L * a + (t % L) /\ t % L \in 0..(L - 1)
      /\ u = L * b + (u % L) /\ u % L \in 0..(L - 1)
  BY <1>1
<1>4. a <= b
  <2>1. SUFFICES ASSUME a >= b + 1 PROVE FALSE
    BY <1>2
  <2> DEFINE d == a - (b + 1)
             r == t % L
             q == u % L
  <2>2. d \in Nat /\ a = (b + 1) + d
    BY <1>2, <2>1
  <2>3. r \in 0..(L - 1) /\ q \in 0..(L - 1) /\ t = L * a + r /\ u = L * b + q
    BY <1>3
  <2> HIDE DEF a, b, d, r, q, L
  <2>4. L * a = L * b + L + L * d /\ L * d \in Nat /\ L * b \in Nat
    BY <1>1, <1>2, <2>2
  <2>5. t >= L * b + L /\ u < L * b + L
    BY <1>1, <2>3, <2>4
  <2> QED
    BY <1>1, <2>4, <2>5
<1> QED
  BY <1>1, <1>2, <1>4 DEF MonthIndex

\* The first days of months sort as the months do.
LEMMA FirstDays ==
    ASSUME NEW i \in Nat, NEW j \in Nat
    PROVE  /\ Before(FirstDay(MonthAt(i)), FirstDay(MonthAt(j))) <=> i < j
           /\ MonthAt(i) = MonthAt(j) => i = j
<1>1. /\ FirstDay(MonthAt(i)) = <<i \div 12, (i % 12) + 1, 0>>
      /\ FirstDay(MonthAt(j)) = <<j \div 12, (j % 12) + 1, 0>>
  BY DEF FirstDay, MonthAt
<1>2. Before(FirstDay(MonthAt(i)), FirstDay(MonthAt(j)))
      <=> \/ i \div 12 < j \div 12
          \/ i \div 12 = j \div 12 /\ (i % 12) + 1 < (j % 12) + 1
  BY <1>1 DEF Before
<1>3. MonthAt(i) = MonthAt(j) => i \div 12 = j \div 12 /\ i % 12 = j % 12
  <2>1. MonthAt(i) = <<i \div 12, (i % 12) + 1>> /\ MonthAt(j) = <<j \div 12, (j % 12) + 1>>
    BY DEF MonthAt
  <2>2. i % 12 \in Int /\ j % 12 \in Int
    OBVIOUS
  <2> QED
    BY <2>1, <2>2
<1> QED
  BY <1>2, <1>3

\* A month of the model is the month of some clock reading.
LEMMA MonthsAreMonths ==
    ASSUME NEW m \in Month
    PROVE  \E i \in Nat : m = MonthAt(i)
<1>1. PICK t \in 0..MaxNow : m = MonthAt(MonthIndex(t))
  BY DEF Month
<1>2. t \in Nat
  BY BoundAssumption
<1> QED
  BY <1>1, <1>2, ClockMonth

\* A service that was active when something was stamped is charged for the
\* month of that stamp.
LEMMA ActiveThen ==
    ASSUME NEW t \in Nat, NEW u \in Nat, t <= u, NEW m \in Month, InMonth(u, m)
    PROVE  ActiveBy(t, m)
<1>1. PICK i \in Nat : m = MonthAt(i)
  BY MonthsAreMonths
<1>2. MonthIndex(t) \in Nat /\ MonthIndex(u) \in Nat /\ MonthIndex(t) <= MonthIndex(u)
  BY MonthsPass
<1>3. m = MonthAt(MonthIndex(u))
  BY <1>1, MonthPartition
<1>4. MonthOf(t) = MonthAt(MonthIndex(t))
  BY DEF MonthOf, Stamp, MonthAt
<1>5. ~Before(FirstDay(MonthAt(MonthIndex(u))), FirstDay(MonthAt(MonthIndex(t))))
  BY <1>2, FirstDays
<1> QED
  BY <1>3, <1>4, <1>5 DEF ActiveBy

\* Nothing that is stamped once a month is over is of that month.
LEMMA OverIsOver ==
    ASSUME NEW t \in Nat, NEW u \in Nat, t <= u, NEW m \in Month,
           Before(FirstDay(m), FirstDay(MonthOf(t)))
    PROVE  ~InMonth(u, m)
<1>1. PICK i \in Nat : m = MonthAt(i)
  BY MonthsAreMonths
<1>2. MonthIndex(t) \in Nat /\ MonthIndex(u) \in Nat /\ MonthIndex(t) <= MonthIndex(u)
  BY MonthsPass
<1>3. MonthOf(t) = MonthAt(MonthIndex(t))
  BY DEF MonthOf, Stamp, MonthAt
<1>4. i < MonthIndex(t)
  BY <1>1, <1>2, <1>3, FirstDays
<1>5. MonthAt(i) # MonthAt(MonthIndex(u))
  BY <1>2, <1>4, FirstDays
<1> QED
  BY <1>1, <1>5, MonthPartition

-----------------------------------------------------------------------------
(* Reports *)

\* What CasesIn reads of the rows cas.
CasesOf(cas, row, m) ==
    {c \in Cases : cas[c] # None /\ InMonth(cas[c].created, m) /\ Matches(row.scope, ScopeOf[c])}

\* What a report q in the making may rely on.  The row of an active pilot is
\* the one that stands; what was listed is in the tables; and the cases of a
\* month that was over when the report began are all there, but for one that an
\* open transaction stamped in it, which `open` then names.
Drawn(q, pil, cas, led, res, wrk, dri, t) ==
    /\ q.since <= t
    /\ q.row.state = "active" => pil[q.pilot] = q.row
    /\ \A i \in q.work : i \in DOMAIN wrk /\ wrk[i].pilot = q.pilot /\ InMonth(wrk[i].at, q.month)
    /\ \A d \in q.drills : <<q.pilot, d>> \in dri /\ InMonth(res[d].checked, q.month)
    /\ q.pc # "reporting" /\ OfClosedMonth(q) =>
         /\ q.cases \subseteq CasesOf(cas, q.row, q.month)
         /\ CasesOf(cas, q.row, q.month) \subseteq q.cases \cup q.open
         /\ led # None /\ cas[led.case] = None /\ InMonth(led.row.created, q.month)
              => led.case \in q.open

Reports == {"reporting", "cases_read", "work_read", "reported"}

ReportInv ==
    \A p \in Procs : proc[p].pc \in Reports =>
        Drawn(proc[p], pilots, cases, ledger, results, work, drills, now)

\* Work for a pilot that a report has read as not active is stamped after that
\* report began, whether it is in the table or still on its way there.
LateFor(q, wrk, prc) ==
    q.row.state # "active" =>
        /\ \A i \in DOMAIN wrk : wrk[i].pilot = q.pilot => q.since <= wrk[i].at
        /\ \A r \in Procs : prc[r].pc = "work_stamped" /\ prc[r].pilot = q.pilot
                             => q.since <= prc[r].at

LateWork == \A p \in Procs : proc[p].pc \in Reports => LateFor(proc[p], work, proc)

\* The tables a report reads only grow.  A case that appears is the open
\* transaction's, and a case's transaction that opens is stamped with the time.
RowsGrow ==
    /\ \A i \in DOMAIN work : i \in DOMAIN work' /\ work'[i] = work[i]
    /\ \A i \in DOMAIN work' \ DOMAIN work :
         \E r \in Procs : /\ proc[r].pc = "work_stamped"
                          /\ work'[i].pilot = proc[r].pilot /\ work'[i].at = proc[r].at
    /\ drills \subseteq drills'
    /\ \A c \in Cases : cases'[c] # None /\ cases[c] = None =>
         ledger # None /\ ledger.case = c /\ cases'[c].created = ledger.row.created
    /\ ledger' # None /\ cases[ledger'.case] = None => ledger' = ledger \/ ledger'.row.created = now

\* RowsGrow is so of every step.
LEMMA TablesGrow ==
    ASSUME IInv, [Next]_vars
    PROVE  RowsGrow
<1>0. work \in Seq(Work)
  BY DEF IInv, TypeOK
<1>1. CASE UNCHANGED <<cases, ledger, work, drills>>
  BY <1>1 DEF RowsGrow
<1>2. ASSUME NEW c \in Cases, OpenCase(c) \/ VerifyCase(c)
      PROVE  RowsGrow
  BY <1>2 DEF OpenCase, VerifyCase, RowsGrow
<1>3. CASE CommitLedger
  BY <1>3 DEF CommitLedger, RowsGrow, IInv, TypeOK
<1>4. CASE RollBackLedger
  BY <1>4 DEF RollBackLedger, RowsGrow
<1>5. ASSUME NEW p \in Procs, InsertWork(p)
      PROVE  RowsGrow
  <2> DEFINE row == [pilot |-> proc[p].pilot, case |-> proc[p].case, at |-> proc[p].at]
  <2>1. /\ proc[p] \in Process /\ proc[p].pc = "work_stamped" /\ work' = Append(work, row)
        /\ UNCHANGED <<cases, ledger, drills>>
    BY <1>5 DEF IInv, TypeOK, InsertWork
  <2>2. row \in Work
    BY <2>1, ProcessFields DEF Work
  <2>3. /\ \A i \in DOMAIN work : i \in DOMAIN work' /\ work'[i] = work[i]
        /\ \A i \in DOMAIN work' \ DOMAIN work : work'[i] = row
    BY <1>0, <2>1, <2>2
  <2> QED
    BY <2>1, <2>3 DEF RowsGrow
<1>6. ASSUME NEW p \in Procs, InsertDrill(p)
      PROVE  RowsGrow
  BY <1>6 DEF InsertDrill, RowsGrow
<1> QED
  BY <1>1, <1>2, <1>3, <1>4, <1>5, <1>6
     DEF Next, Outside, Tick, EvaluateDrill, RequestPilot, Onboard, Command, StartActivate,
         StampActivation, CommitActivation, StartWork, ReadCase, StampWork, StartRecordDrill,
         StartAttach, InsertAttached, RecordAttached, StartReport, ReadCases, ReadWork,
         ReadDrills, End, vars, tables

\* No step of anyone takes from a report what it relies on.
LEMMA DrawnStays ==
    ASSUME IInv, IInv', Grow, RowsGrow, NEW q \in Reporting, Drawn(q, pilots, cases, ledger, results, work, drills, now)
    PROVE  Drawn(q, pilots', cases', ledger', results', work', drills', now')
<1>1. /\ q.pilot \in Requests /\ q.row \in Pilot /\ q.month \in Month /\ q.since \in Nat
      /\ q.work \subseteq Nat \ {0} /\ q.drills \subseteq Drills /\ now \in Nat /\ now' \in Nat
  BY DEF Reporting, IInv, TypeOK
<1>2. q.since <= now'
  BY <1>1 DEF Drawn, Grow
<1>3. q.row.state = "active" => pilots'[q.pilot] = q.row
  <2>1. q.row # None
    BY <1>1, NoneAssumption
  <2> QED
    BY <1>1, <2>1 DEF Drawn, Grow, IsActive
<1>4. \A i \in q.work : i \in DOMAIN work' /\ work'[i].pilot = q.pilot /\ InMonth(work'[i].at, q.month)
  BY DEF Drawn, RowsGrow
<1>5. \A d \in q.drills : <<q.pilot, d>> \in drills' /\ InMonth(results'[d].checked, q.month)
  <2>1. SUFFICES ASSUME NEW d \in q.drills
                 PROVE  <<q.pilot, d>> \in drills' /\ InMonth(results'[d].checked, q.month)
    OBVIOUS
  <2>2. <<q.pilot, d>> \in drills /\ InMonth(results[d].checked, q.month)
    BY DEF Drawn
  <2>3. results[d] # None
    BY <2>2 DEF IInv, DrillsInService
  <2> QED
    BY <1>1, <2>2, <2>3 DEF Grow, RowsGrow
<1>6. ASSUME q.pc # "reporting", OfClosedMonth(q)
      PROVE  /\ q.cases \subseteq CasesOf(cases', q.row, q.month)
             /\ CasesOf(cases', q.row, q.month) \subseteq q.cases \cup q.open
             /\ ledger' # None /\ cases'[ledger'.case] = None /\ InMonth(ledger'.row.created, q.month)
                  => ledger'.case \in q.open
  <2>1. /\ q.cases \subseteq CasesOf(cases, q.row, q.month)
        /\ CasesOf(cases, q.row, q.month) \subseteq q.cases \cup q.open
        /\ ledger # None /\ cases[ledger.case] = None /\ InMonth(ledger.row.created, q.month)
             => ledger.case \in q.open
    BY <1>6 DEF Drawn
  <2>2. q.cases \subseteq CasesOf(cases', q.row, q.month)
    BY <2>1 DEF CasesOf, Grow
  <2>3. ASSUME NEW c \in CasesOf(cases', q.row, q.month)
        PROVE  c \in q.cases \cup q.open
    <3>1. c \in Cases /\ cases'[c] # None /\ InMonth(cases'[c].created, q.month)
          /\ Matches(q.row.scope, ScopeOf[c])
      BY DEF CasesOf
    <3>2. CASE cases[c] # None
      BY <2>1, <3>1, <3>2 DEF CasesOf, Grow
    <3>3. CASE cases[c] = None
      <4>1. ledger # None /\ ledger.case = c /\ cases'[c].created = ledger.row.created
        BY <3>1, <3>3 DEF RowsGrow
      <4> QED
        BY <2>1, <3>1, <3>3, <4>1
    <3> QED
      BY <3>2, <3>3
  <2>4. ASSUME ledger' # None, cases'[ledger'.case] = None, InMonth(ledger'.row.created, q.month)
        PROVE  ledger'.case \in q.open
    <3>1. ledger' \in Transaction /\ ledger'.case \in Cases
      BY <2>4 DEF IInv, TypeOK, Transaction
    <3>2. cases[ledger'.case] = None
      BY <2>4, <3>1 DEF Grow
    <3>3. q.since <= now
      BY DEF Drawn
    <3>4. ~InMonth(now, q.month)
      BY <1>1, <1>6, <3>3, OverIsOver DEF OfClosedMonth
    <3>5. ledger' = ledger
      BY <2>4, <3>2, <3>4 DEF RowsGrow
    <3> QED
      BY <2>1, <2>4, <3>2, <3>5
  <2> QED
    BY <2>2, <2>3, <2>4
<1> QED
  BY <1>2, <1>3, <1>4, <1>5, <1>6 DEF Drawn

\* One report moves on and stays drawn from the tables.
LEMMA ReportMoves ==
    ASSUME IInv, IInv', Grow, RowsGrow, ReportInv, NEW p \in Procs, NEW q,
           proc' = [proc EXCEPT ![p] = q], q.pc \in Reports => Drawn(q, pilots', cases', ledger', results', work', drills', now')
    PROVE  ReportInv'
<1>1. \A r \in Procs : proc'[r] = IF r = p THEN q ELSE proc[r]
  BY DEF IInv, TypeOK
<1>2. ASSUME NEW r \in Procs, r # p, proc[r].pc \in Reports
      PROVE  Drawn(proc[r], pilots', cases', ledger', results', work', drills', now')
  <2>1. proc[r] \in Process /\ Drawn(proc[r], pilots, cases, ledger, results, work, drills, now)
    BY <1>2 DEF IInv, TypeOK, ReportInv
  <2>2. proc[r] \in Reporting
    BY <1>2, <2>1, ProcessFields DEF Reports
  <2> QED
    BY <2>1, <2>2, DrawnStays
<1> QED
  BY <1>1, <1>2 DEF ReportInv

\* Where the commands that draw no report move: not into one, and a stamp of
\* work is the time.
Stays(q) == q.pc \notin Reports /\ (q.pc = "work_stamped" => q.at = now)

LEMMA CommandMoves ==
    ASSUME IInv, NEW p \in Procs,
           \/ \E r \in Requests : StartActivate(p, r)
           \/ StampActivation(p) \/ CommitActivation(p)
           \/ \E r \in Requests, c \in Cases : StartWork(p, r, c)
           \/ ReadCase(p) \/ StampWork(p) \/ InsertWork(p)
           \/ \E r \in Requests, d \in Drills : StartRecordDrill(p, r, d)
           \/ \E c \in Cases, d \in Drills, r \in Requests \cup {None} : StartAttach(p, c, d, r)
           \/ InsertDrill(p) \/ InsertAttached(p) \/ RecordAttached(p)
           \/ End(p)
    PROVE  \E q : proc' = [proc EXCEPT ![p] = q] /\ Stays(q)
<1> DEFINE Moves == \E q : proc' = [proc EXCEPT ![p] = q] /\ Stays(q)
<1>0. TypeOK /\ Stays(Idle)
  BY DEF IInv, Idle, Stays, Reports
<1>1. ASSUME NEW r, StartActivate(p, r)
      PROVE  Moves
  <2> DEFINE q == [pc |-> "activating", pilot |-> r]
  <2>1. proc' = [proc EXCEPT ![p] = q] /\ Stays(q)
    BY <1>1 DEF StartActivate, Stays, Reports
  <2> QED
    BY <2>1
<1>2. CASE StampActivation(p)
  <2> DEFINE q == [pc |-> "activation_stamped", pilot |-> proc[p].pilot, at |-> now]
  <2>1. proc' = [proc EXCEPT ![p] = q] /\ Stays(q)
    BY <1>2 DEF StampActivation, Stays, Reports
  <2> QED
    BY <2>1
<1>3. ASSUME NEW r, NEW c, StartWork(p, r, c)
      PROVE  Moves
  <2> DEFINE q == [pc |-> "pilot_active", pilot |-> r, case |-> c]
  <2>1. proc' = [proc EXCEPT ![p] = q] /\ Stays(q)
    BY <1>3 DEF StartWork, Stays, Reports
  <2> QED
    BY <2>1
<1>4. CASE ReadCase(p)
  <2> DEFINE q == [pc |-> "working", pilot |-> proc[p].pilot, case |-> proc[p].case]
  <2>1. proc' = [proc EXCEPT ![p] = q] \/ proc' = [proc EXCEPT ![p] = Idle]
    BY <1>4 DEF ReadCase
  <2>2. Stays(q)
    BY DEF Stays, Reports
  <2> QED
    BY <1>0, <2>1, <2>2
<1>5. CASE StampWork(p)
  <2> DEFINE q == [pc |-> "work_stamped", pilot |-> proc[p].pilot,
                   case |-> proc[p].case, at |-> now]
  <2>1. proc' = [proc EXCEPT ![p] = q] /\ Stays(q)
    BY <1>5 DEF StampWork, Stays, Reports
  <2> QED
    BY <2>1
<1>6. \A r, d : Stays(DrillChecked(r, d))
  BY DEF DrillChecked, Stays, Reports
<1>7. ASSUME NEW r, NEW d, StartRecordDrill(p, r, d)
      PROVE  Moves
  BY <1>6, <1>7 DEF StartRecordDrill
<1>8. ASSUME NEW c, NEW d, NEW r, StartAttach(p, c, d, r)
      PROVE  Moves
  <2> DEFINE q == [pc |-> "attaching", case |-> c, drill |-> d, pilot |-> r]
  <2>1. proc' = [proc EXCEPT ![p] = q] /\ Stays(q)
    BY <1>8 DEF StartAttach, Stays, Reports
  <2> QED
    BY <2>1
<1>9. CASE InsertAttached(p)
  <2> DEFINE q == [proc[p] EXCEPT !.pc = "attached"]
  <2>1. proc' = [proc EXCEPT ![p] = q] \/ proc' = [proc EXCEPT ![p] = Idle]
    BY <1>9 DEF InsertAttached
  <2>2. proc[p] \in Process /\ proc[p].pc = "attaching"
    BY <1>0, <1>9 DEF InsertAttached, TypeOK
  <2>3. Stays(q)
    BY <2>2 DEF Process, Reporting, Idle, Stays, Reports
  <2> QED
    BY <1>0, <2>1, <2>3
<1>10. CASE RecordAttached(p)
  BY <1>0, <1>6, <1>10 DEF RecordAttached
<1>11. CASE CommitActivation(p) \/ InsertWork(p) \/ InsertDrill(p) \/ End(p)
  BY <1>0, <1>11 DEF CommitActivation, InsertWork, InsertDrill, End
<1> QED
  BY <1>1, <1>2, <1>3, <1>4, <1>5, <1>7, <1>8, <1>9, <1>10, <1>11

\* A process that draws a report has drawn it from the tables so far.
LEMMA ReportInvariant == Spec => []ReportInv
<1>1. Init => ReportInv
  BY DEF Init, ReportInv, Reports, Idle
<1>2. IInv /\ IInv' /\ Grow /\ ReportInv /\ [Next]_vars => ReportInv'
  <2> SUFFICES ASSUME IInv, IInv', Grow, ReportInv, [Next]_vars PROVE ReportInv'
    OBVIOUS
  <2>0. RowsGrow /\ TypeOK /\ Idle.pc \notin Reports
    BY TablesGrow DEF IInv, Idle, Reports
  <2>1. CASE UNCHANGED proc
    <3>1. ASSUME NEW r \in Procs, proc[r].pc \in Reports
          PROVE  Drawn(proc[r], pilots', cases', ledger', results', work', drills', now')
      <4>1. proc[r] \in Process /\ Drawn(proc[r], pilots, cases, ledger, results, work, drills, now)
        BY <2>0, <3>1 DEF TypeOK, ReportInv
      <4>2. proc[r] \in Reporting
        BY <3>1, <4>1, ProcessFields DEF Reports
      <4> QED
        BY <2>0, <4>1, <4>2, DrawnStays
    <3> QED
      BY <2>1, <3>1 DEF ReportInv
  <2>2. ASSUME NEW p \in Procs, NEW r \in Requests, NEW m \in Month, StartReport(p, r, m)
        PROVE  ReportInv'
    <3> DEFINE q == [pc |-> "reporting", pilot |-> r, row |-> pilots[r], month |-> m,
                     since |-> now, open |-> {}, cases |-> {}, work |-> {}, drills |-> {}]
    <3>1. /\ q.pc = "reporting" /\ q.pilot = r /\ q.row = pilots[r] /\ q.since = now
          /\ q.work = {} /\ q.drills = {}
      OBVIOUS
    <3>2. proc' = [proc EXCEPT ![p] = q] /\ UNCHANGED <<now, cases, results, tables>> /\ now \in Nat
      BY <2>0, <2>2 DEF StartReport, TypeOK
    <3> HIDE DEF q
    <3>3. Drawn(q, pilots', cases', ledger', results', work', drills', now')
      BY <3>1, <3>2 DEF Drawn, tables
    <3> QED
      BY <2>0, <3>2, <3>3, ReportMoves
  <2>3. ASSUME NEW p \in Procs, ReadCases(p) \/ ReadWork(p) \/ ReadDrills(p)
        PROVE  ReportInv'
    <3>1. /\ proc[p] \in Reporting /\ Drawn(proc[p], pilots, cases, ledger, results, work, drills, now)
          /\ UNCHANGED <<now, cases, results, tables>>
      <4>1. proc[p] \in Process
        BY <2>0 DEF TypeOK
      <4> QED
        BY <2>3, <4>1, ProcessFields DEF ReadCases, ReadWork, ReadDrills, ReportInv, Reports
    <3>2. CASE ReadCases(p)
      <4> DEFINE found == CasesOf(cases, proc[p].row, proc[p].month)
                 pending == IF ledger = None THEN {} ELSE {ledger.case}
                 q == [proc[p] EXCEPT !.pc = "cases_read", !.open = pending, !.cases = found]
      <4>1. CasesIn(proc[p].row, proc[p].month) = found
        BY DEF CasesIn, CasesOf
      <4>2. proc' = [proc EXCEPT ![p] = q]
        BY <2>0, <3>2, <4>1 DEF ReadCases, TypeOK
      <4> HIDE DEF found, pending
      <4>3. /\ q.since = proc[p].since /\ q.row = proc[p].row /\ q.pilot = proc[p].pilot
            /\ q.month = proc[p].month /\ q.work = proc[p].work /\ q.drills = proc[p].drills
            /\ q.cases = found /\ q.open = pending
        BY <3>1 DEF Reporting
      <4> HIDE DEF q
      <4>4. Drawn(q, pilots, cases, ledger, results, work, drills, now)
        BY <3>1, <4>3 DEF Drawn, found, pending
      <4> QED
        BY <2>0, <3>1, <4>2, <4>4, ReportMoves DEF tables
    <3>3. CASE ReadWork(p)
      <4> DEFINE found == WorkIn(proc[p].pilot, proc[p].month)
                 q == [proc[p] EXCEPT !.pc = "work_read", !.work = found]
      <4>1. proc' = [proc EXCEPT ![p] = q] /\ proc[p].pc = "cases_read"
        BY <2>0, <3>3 DEF ReadWork, TypeOK
      <4>2. \A i \in found : /\ i \in DOMAIN work /\ work[i].pilot = proc[p].pilot
                             /\ InMonth(work[i].at, proc[p].month)
        BY DEF WorkIn
      <4> HIDE DEF found
      <4>3. /\ q.since = proc[p].since /\ q.row = proc[p].row /\ q.pilot = proc[p].pilot
            /\ q.month = proc[p].month /\ q.cases = proc[p].cases /\ q.drills = proc[p].drills
            /\ q.open = proc[p].open /\ q.work = found
        BY <3>1 DEF Reporting
      <4> HIDE DEF q
      <4>4. Drawn(q, pilots, cases, ledger, results, work, drills, now)
        BY <3>1, <4>1, <4>2, <4>3 DEF Drawn, OfClosedMonth
      <4> QED
        BY <2>0, <3>1, <4>1, <4>4, ReportMoves DEF tables
    <3>4. CASE ReadDrills(p)
      <4> DEFINE found == DrillsIn(proc[p].pilot, proc[p].month)
                 q == [proc[p] EXCEPT !.pc = "reported", !.drills = found]
      <4>1. proc' = [proc EXCEPT ![p] = q] /\ proc[p].pc = "work_read"
        BY <2>0, <3>4 DEF ReadDrills, TypeOK
      <4>2. \A d \in found : /\ <<proc[p].pilot, d>> \in drills
                             /\ InMonth(results[d].checked, proc[p].month)
        BY DEF DrillsIn
      <4> HIDE DEF found
      <4>3. /\ q.since = proc[p].since /\ q.row = proc[p].row /\ q.pilot = proc[p].pilot
            /\ q.month = proc[p].month /\ q.cases = proc[p].cases /\ q.work = proc[p].work
            /\ q.open = proc[p].open /\ q.drills = found
        BY <3>1 DEF Reporting
      <4> HIDE DEF q
      <4>4. Drawn(q, pilots, cases, ledger, results, work, drills, now)
        BY <3>1, <4>1, <4>2, <4>3 DEF Drawn, OfClosedMonth
      <4> QED
        BY <2>0, <3>1, <4>1, <4>4, ReportMoves DEF tables
    <3> QED
      BY <2>3, <3>2, <3>3, <3>4
  <2>4. ASSUME NEW p \in Procs,
               \/ \E r \in Requests : StartActivate(p, r)
               \/ StampActivation(p) \/ CommitActivation(p)
               \/ \E r \in Requests, c \in Cases : StartWork(p, r, c)
               \/ ReadCase(p) \/ StampWork(p) \/ InsertWork(p)
               \/ \E r \in Requests, d \in Drills : StartRecordDrill(p, r, d)
               \/ \E c \in Cases, d \in Drills, r \in Requests \cup {None} : StartAttach(p, c, d, r)
               \/ InsertDrill(p) \/ InsertAttached(p) \/ RecordAttached(p)
               \/ End(p)
        PROVE  ReportInv'
    BY <2>0, <2>4, CommandMoves, ReportMoves DEF Stays
  <2> QED
    BY <2>1, <2>2, <2>3, <2>4
       DEF Next, Outside, Tick, OpenCase, VerifyCase, CommitLedger, RollBackLedger, EvaluateDrill, RequestPilot, Onboard,
           Command, vars
<1> QED
  BY <1>1, <1>2, InitHolds, NextHolds, PTL DEF Spec

\* Where processes move: a new stamp of work is the time, and a report that is
\* begun or goes on began before the work there is.
ProcsMove ==
    \A r \in Procs :
        /\ proc'[r].pc = "work_stamped" => proc'[r] = proc[r] \/ proc'[r].at = now
        /\ proc'[r].pc \in Reports =>
             \/ proc'[r] = proc[r]
             \/ LateFor(proc'[r], work, proc) /\ proc'[r].since <= now

\* LateWork is kept, whichever process moves.
LEMMA LateStays ==
    ASSUME RowsGrow, ReportInv, LateWork, ProcsMove
    PROVE  LateWork'
<1> SUFFICES ASSUME NEW p \in Procs, proc'[p].pc \in Reports, proc'[p].row.state # "active"
             PROVE  /\ \A i \in DOMAIN work' : work'[i].pilot = proc'[p].pilot
                                               => proc'[p].since <= work'[i].at
                    /\ \A r \in Procs : proc'[r].pc = "work_stamped" /\ proc'[r].pilot = proc'[p].pilot
                                        => proc'[p].since <= proc'[r].at
  BY DEF LateWork, LateFor
<1> DEFINE q == proc'[p]
<1>1. LateFor(q, work, proc) /\ q.since <= now
  BY DEF ReportInv, LateWork, Drawn, ProcsMove
<1>2. /\ \A i \in DOMAIN work : work[i].pilot = q.pilot => q.since <= work[i].at
      /\ \A r \in Procs : proc[r].pc = "work_stamped" /\ proc[r].pilot = q.pilot
                          => q.since <= proc[r].at
  BY <1>1 DEF LateFor
<1> HIDE DEF q
<1>3. ASSUME NEW i \in DOMAIN work', work'[i].pilot = q.pilot
      PROVE  q.since <= work'[i].at
  <2>1. CASE i \in DOMAIN work
    BY <1>2, <1>3, <2>1 DEF RowsGrow
  <2>2. CASE i \notin DOMAIN work
    <3>1. PICK r \in Procs : /\ proc[r].pc = "work_stamped"
                             /\ work'[i].pilot = proc[r].pilot /\ work'[i].at = proc[r].at
      BY <2>2 DEF RowsGrow
    <3> QED
      BY <1>2, <1>3, <3>1
  <2> QED
    BY <2>1, <2>2
<1>4. ASSUME NEW r \in Procs, proc'[r].pc = "work_stamped", proc'[r].pilot = q.pilot
      PROVE  q.since <= proc'[r].at
  BY <1>1, <1>2, <1>4 DEF ProcsMove
<1> QED
  BY <1>3, <1>4 DEF q

\* A report that has read its pilot as not active is begun before any work on it.
LEMMA LateInvariant == Spec => []LateWork
<1>1. Init => LateWork
  BY DEF Init, LateWork, Reports, Idle
<1>2. IInv /\ IInv' /\ ReportInv /\ LateWork /\ [Next]_vars => LateWork'
  <2> SUFFICES ASSUME IInv, IInv', ReportInv, LateWork, [Next]_vars PROVE LateWork'
    OBVIOUS
  <2>0. RowsGrow /\ TypeOK /\ TypeOK'
    BY TablesGrow DEF IInv
  <2>1. CASE UNCHANGED proc
    <3>1. ProcsMove
      BY <2>1 DEF ProcsMove
    <3> QED
      BY <2>0, <3>1, LateStays
  <2>2. ASSUME NEW p \in Procs, NEW r \in Requests, NEW m \in Month, StartReport(p, r, m)
        PROVE  LateWork'
    <3> DEFINE q == [pc |-> "reporting", pilot |-> r, row |-> pilots[r], month |-> m,
                     since |-> now, open |-> {}, cases |-> {}, work |-> {}, drills |-> {}]
    <3>1. /\ q.pc = "reporting" /\ q.pilot = r /\ q.row = pilots[r] /\ q.since = now
          /\ now \in Nat
      BY <2>0 DEF TypeOK
    <3>2. \A s \in Procs : proc'[s] = IF s = p THEN q ELSE proc[s]
      BY <2>0, <2>2 DEF StartReport, TypeOK
    <3> HIDE DEF q
    <3>3. ASSUME pilots[r].state # "active"
          PROVE  /\ \A i \in DOMAIN work : work[i].pilot # r
                 /\ \A s \in Procs : proc[s].pc = "work_stamped" => proc[s].pilot # r
      BY <3>3 DEF IInv, WorkInService, Held, IsActive
    <3>4. LateFor(q, work, proc) /\ q.since <= now
      BY <3>1, <3>3 DEF LateFor
    <3>5. ProcsMove
      BY <3>1, <3>2, <3>4 DEF ProcsMove
    <3> QED
      BY <2>0, <3>5, LateStays
  <2>3. ASSUME NEW p \in Procs, ReadCases(p) \/ ReadWork(p) \/ ReadDrills(p)
        PROVE  LateWork'
    <3>1. proc[p] \in Reporting /\ proc[p].pc \in Reports
      <4>1. proc[p] \in Process
        BY <2>0 DEF TypeOK
      <4> QED
        BY <2>3, <4>1, ProcessFields DEF ReadCases, ReadWork, ReadDrills, Reports
    <3>2. /\ \A s \in Procs : s # p => proc'[s] = proc[s]
          /\ proc'[p].pc # "work_stamped" /\ proc'[p].row = proc[p].row
          /\ proc'[p].pilot = proc[p].pilot /\ proc'[p].since = proc[p].since
      <4>1. CASE ReadCases(p)
        BY <2>0, <3>1, <4>1 DEF ReadCases, TypeOK, Reporting
      <4>2. CASE ReadWork(p)
        BY <2>0, <3>1, <4>2 DEF ReadWork, TypeOK, Reporting
      <4>3. CASE ReadDrills(p)
        BY <2>0, <3>1, <4>3 DEF ReadDrills, TypeOK, Reporting
      <4> QED
        BY <2>3, <4>1, <4>2, <4>3
    <3>3. LateFor(proc'[p], work, proc) /\ proc'[p].since <= now
      BY <3>1, <3>2 DEF LateWork, LateFor, ReportInv, Drawn
    <3>4. ProcsMove
      BY <3>2, <3>3 DEF ProcsMove
    <3> QED
      BY <2>0, <3>4, LateStays
  <2>4. ASSUME NEW p \in Procs,
               \/ \E r \in Requests : StartActivate(p, r)
               \/ StampActivation(p) \/ CommitActivation(p)
               \/ \E r \in Requests, c \in Cases : StartWork(p, r, c)
               \/ ReadCase(p) \/ StampWork(p) \/ InsertWork(p)
               \/ \E r \in Requests, d \in Drills : StartRecordDrill(p, r, d)
               \/ \E c \in Cases, d \in Drills, r \in Requests \cup {None} : StartAttach(p, c, d, r)
               \/ InsertDrill(p) \/ InsertAttached(p) \/ RecordAttached(p)
               \/ End(p)
        PROVE  LateWork'
    <3>1. PICK q : proc' = [proc EXCEPT ![p] = q] /\ Stays(q)
      BY <2>4, CommandMoves
    <3>2. \A s \in Procs : proc'[s] = IF s = p THEN q ELSE proc[s]
      BY <2>0, <3>1 DEF TypeOK
    <3>3. ProcsMove
      BY <3>1, <3>2 DEF ProcsMove, Stays
    <3> QED
      BY <2>0, <3>3, LateStays
  <2> QED
    BY <2>1, <2>2, <2>3, <2>4
       DEF Next, Outside, Tick, OpenCase, VerifyCase, CommitLedger, RollBackLedger, EvaluateDrill,
           RequestPilot, Onboard, Command, vars
<1> QED
  BY <1>1, <1>2, InitHolds, NextHolds, ReportInvariant, PTL DEF Spec

\* A report of a closed month charges for the work it lists, and so does any
\* report whose pilot was active when it began; a closed month is complete but for
\* a case that was in an open transaction: for any number of commands beside it,
\* any calendar and any clock.
THEOREM ReportsAreRight == Spec => []ReportIsRight
<1>1. IInv /\ ReportInv /\ LateWork => ReportIsRight
  <2> SUFFICES ASSUME IInv, ReportInv, LateWork, NEW p \in Procs, proc[p].pc = "reported"
               PROVE  /\ \/ proc[p].work # {} /\ OfClosedMonth(proc[p])
                         \/ (proc[p].work # {} \/ proc[p].drills # {}) /\ IsActive(proc[p].row)
                         => Charged(proc[p].row, proc[p].month)
                      /\ OfClosedMonth(proc[p]) =>
                           /\ proc[p].cases \subseteq CasesIn(proc[p].row, proc[p].month)
                           /\ CasesIn(proc[p].row, proc[p].month) \subseteq proc[p].cases \cup proc[p].open
    BY DEF ReportIsRight, ReportCharges, ClosedMonthIsComplete
  <2> DEFINE q == proc[p]
  <2>1. /\ q \in Reporting /\ Drawn(q, pilots, cases, ledger, results, work, drills, now)
        /\ LateFor(q, work, proc)
    <3>1. q \in Process
      BY DEF IInv, TypeOK
    <3> QED
      BY <3>1, ProcessFields DEF ReportInv, LateWork, Reports
  <2>2. OfClosedMonth(q) =>
          /\ q.cases \subseteq CasesIn(q.row, q.month)
          /\ CasesIn(q.row, q.month) \subseteq q.cases \cup q.open
    BY <2>1 DEF Drawn, CasesIn, CasesOf
  <2>3. ASSUME q.row.state = "active", NEW u \in Nat, InMonth(u, q.month),
               q.row.active_at <= u
        PROVE  Charged(q.row, q.month)
    <3>1. q.pilot \in Requests /\ q.row \in Pilot /\ q.month \in Month /\ pilots[q.pilot] = q.row
      BY <2>1, <2>3 DEF Reporting, Drawn
    <3>2. q.row.active_at \in Nat
      BY <2>3, <3>1, NoneAssumption DEF IInv, RowTimes, IsActive
    <3> QED
      BY <2>3, <3>1, <3>2, NoneAssumption, ActiveThen DEF Charged
  <2>4. ASSUME NEW i \in q.work
        PROVE  /\ q.row.state = "active" => Charged(q.row, q.month)
               /\ OfClosedMonth(q) => q.row.state = "active"
    <3>1. /\ i \in DOMAIN work /\ work[i].pilot = q.pilot /\ InMonth(work[i].at, q.month)
          /\ q.row.state = "active" => pilots[q.pilot] = q.row
      BY <2>1, <2>4 DEF Drawn
    <3>2. work[i].at \in Nat
      <4>1. work[i] \in Work
        BY <3>1 DEF IInv, TypeOK
      <4> QED
        BY <4>1 DEF Work
    <3>3. CASE q.row.state = "active"
      <4>1. q.row.active_at <= work[i].at
        BY <3>1, <3>3 DEF IInv, WorkInService
      <4> QED
        BY <2>3, <3>1, <3>2, <3>3, <4>1
    <3>4. CASE q.row.state # "active"
      <4>1. q.since <= work[i].at /\ q.since \in Nat /\ q.month \in Month
        BY <2>1, <3>1, <3>4 DEF LateFor, Reporting
      <4>2. ~OfClosedMonth(q)
        BY <3>1, <3>2, <4>1, OverIsOver DEF OfClosedMonth
      <4> QED
        BY <3>4, <4>2
    <3> QED
      BY <3>3, <3>4
  <2>5. ASSUME q.row.state = "active", NEW d \in q.drills
        PROVE  Charged(q.row, q.month)
    <3>1. /\ <<q.pilot, d>> \in drills /\ InMonth(results[d].checked, q.month)
          /\ pilots[q.pilot] = q.row /\ d \in Drills
      BY <2>1, <2>5 DEF Drawn, Reporting
    <3>2. results[d] # None /\ q.row.active_at <= results[d].checked
      BY <3>1 DEF IInv, DrillsInService
    <3>3. results[d].checked \in Nat
      BY <3>1, <3>2 DEF IInv, TypeOK, Result
    <3> QED
      BY <2>3, <2>5, <3>1, <3>2, <3>3
  <2> QED
    BY <2>2, <2>4, <2>5 DEF IsActive
<1> QED
  BY <1>1, InitHolds, NextHolds, ReportInvariant, LateInvariant, PTL DEF Spec
=============================================================================
