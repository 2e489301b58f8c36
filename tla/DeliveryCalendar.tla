-------------------------- MODULE DeliveryCalendar --------------------------
(***************************************************************************)
(* Months as service_delivery, partner_cloud and managed_ai compare them.  *)
(* A month is <<year, number>> and a timestamp <<year, number, rest>>; an  *)
(* ISO string compares as these tuples do, field by field.                 *)
(***************************************************************************)
EXTENDS Integers

CONSTANTS
    FirstMonth,     \* the month the clock starts in, counted from 0000-01
    MonthLength     \* clock ticks in a month

ASSUME CalendarAssumption == FirstMonth \in Nat /\ MonthLength \in Nat \ {0}

\* The month a clock reading lies in, counted from 0000-01.
MonthIndex(t) == FirstMonth + t \div MonthLength

MonthAt(index) == <<index \div 12, (index % 12) + 1>>

\* isoformat() of a clock reading, and its first seven characters.
Stamp(t) == LET m == MonthAt(MonthIndex(t)) IN <<m[1], m[2], (t % MonthLength) + 1>>
MonthOf(t) == <<Stamp(t)[1], Stamp(t)[2]>>

NextMonth_NoCarry(m) == <<m[1], (m[2] % 12) + 1>>

NextMonth(m) == <<m[1] + (IF m[2] = 12 THEN 1 ELSE 0), (m[2] % 12) + 1>>

\* "YYYY-MM-01", which sorts before every time of that day.
FirstDay(m) == <<m[1], m[2], 0>>

\* a < b for two timestamps.
Before(a, b) ==
    \/ a[1] < b[1]
    \/ a[1] = b[1] /\ a[2] < b[2]
    \/ a[1] = b[1] /\ a[2] = b[2] /\ a[3] < b[3]

\* The WHERE clause of every monthly query.
InMonth(t, m) ==
    ~Before(Stamp(t), FirstDay(m)) /\ Before(Stamp(t), FirstDay(NextMonth(m)))

\* active_at[:7] <= month
ActiveBy(t, m) == ~Before(FirstDay(m), FirstDay(MonthOf(t)))
=============================================================================
