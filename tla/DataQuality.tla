------------------------------ MODULE DataQuality ------------------------------
(***************************************************************************)
(* The log of data quality warnings and the hourly check that turns it     *)
(* into an issue.  PlaceRepository.fetch logs a row for what it could not  *)
(* map; SQLite stamps the row with CURRENT_TIMESTAMP, a text.  The check   *)
(* counts the rows whose text is not before the text of the start of its   *)
(* window, which toISOString writes.  A text is its date, the character    *)
(* between date and time, and its time: texts compare in that order.       *)
(* Time is counted in steps of StepMinutes from some midnight (UTC).       *)
(***************************************************************************)
EXTENDS Integers, FiniteSets

CONSTANTS
    StepMinutes,        \* bound: minutes of a step of the clock
    FirstStep,          \* bound: when the behaviour begins
    LastStep,           \* bound: when the clock stops
    MaxWarnings         \* bound: rows in the log

PerHour == 60 \div StepMinutes
PerDay == 24 * PerHour
WindowSteps == 70 \div StepMinutes      \* WINDOW_MINUTES
\* What the window allows for: an hour between checks and the delay of a cron.
DelaySteps == WindowSteps - PerHour

ConstantsAssumption ==
    /\ StepMinutes \in {5, 10}
    /\ LastStep \in Nat /\ FirstStep \in 0..LastStep
    /\ MaxWarnings \in Nat

VARIABLES
    clock,              \* the wall clock
    due,                \* the cron has fired and the check has not run
    log,                \* data_quality_warning_log: when its rows were inserted
    alarm,              \* the issue of the source is open
    checked,            \* history: when the last check ran
    counted             \* history: rows that some check has counted

vars == <<clock, due, log, alarm, checked, counted>>

Init ==
    /\ clock = FirstStep
    /\ due = FALSE
    /\ log = {} /\ alarm = FALSE /\ checked = FirstStep /\ counted = {}

-----------------------------------------------------------------------------
(* Texts of instants, and how SQLite compares them. *)

Text(t, separator) == <<t \div PerDay, separator, t % PerDay>>
CurrentTimestamp(t) == Text(t, 32)      \* 'YYYY-MM-DD HH:MM:SS'
ToISOString(t) == Text(t, 84)           \* 'YYYY-MM-DDTHH:MM:SS.sssZ'

\* Faulty variant: the dates alone are compared.
IsGteByDate(a, b) == a[1] >= b[1]

IsGte(a, b) ==
    \/ a[1] > b[1]
    \/ a[1] = b[1] /\ a[2] > b[2]
    \/ a[1] = b[1] /\ a[2] = b[2] /\ a[3] >= b[3]

RowsSince(start) == {t \in log : IsGte(CurrentTimestamp(t), ToISOString(start))}

-----------------------------------------------------------------------------
\* The cron runs late by DelaySteps at most.
Tick ==
    /\ clock < LastStep
    /\ due => clock % PerHour < DelaySteps
    /\ clock' = clock + 1
    /\ due' = (due \/ clock' % PerHour = 0)
    /\ UNCHANGED <<log, alarm, checked, counted>>

\* Rows of places that cannot be mapped; a failing insert is swallowed and
\* leaves nothing.
RecordDataQualityWarning ==
    /\ clock \notin log /\ Cardinality(log) < MaxWarnings
    /\ log' = log \cup {clock}
    /\ UNCHANGED <<clock, due, alarm, checked, counted>>

\* checkOneSource: an issue is opened for warnings in the window, and closed
\* when there is none.
CheckOneSource ==
    LET rows == RowsSince(clock - WindowSteps)
    IN /\ due /\ due' = FALSE
       /\ alarm' = (rows # {})
       /\ counted' = counted \cup rows
       /\ checked' = clock
       /\ UNCHANGED <<clock, log>>

Next == Tick \/ RecordDataQualityWarning \/ CheckOneSource

Spec == Init /\ [][Next]_vars

-----------------------------------------------------------------------------
(* Properties. *)

TypeOK ==
    /\ {clock, checked} \subseteq FirstStep..LastStep
    /\ due \in BOOLEAN /\ alarm \in BOOLEAN
    /\ log \subseteq FirstStep..LastStep /\ counted \subseteq log

\* The issue is open after a check only for warnings of its window: it closes
\* by itself once the data is good again.
AlarmIsRecent == alarm => \E t \in counted : t >= checked - WindowSteps

\* With checks as late as the window allows, no warning escapes them all.
WarningsAreCounted == \A t \in log : t < checked => t \in counted
=============================================================================
