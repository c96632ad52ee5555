------------------------------ MODULE BatchDates ------------------------------
(***************************************************************************)
(* The days a batch works on: the ranges of a scheduled run and of the two *)
(* doors for a range of one's own, the command line and the router, the    *)
(* limits they apply, and what becomes of a range at the api, which gets   *)
(* dates without a time and keeps its rows by the instant.  Days count     *)
(* from some day in Japan; instants are hours since midnight UTC of that   *)
(* day, nine hours after the day began in Japan.                           *)
(***************************************************************************)
EXTENDS Integers, FiniteSets

CONSTANTS
    RaceTypes,      \* of "jra", "nar", "overseas", "keirin" (and its like), "boatrace"
    Ranges,         \* the ranges <<start, finish>> people ask for
    Instants,       \* the instants at which batches begin, from 0 on
    DaysPerMonth

ConstantsAssumption ==
    /\ RaceTypes \subseteq {"jra", "nar", "overseas", "keirin", "boatrace"}
    /\ RaceTypes # {}
    /\ \A r \in Ranges : r[1] \in Int /\ r[2] \in Int
    /\ Instants \subseteq Nat /\ 0 \in Instants /\ DaysPerMonth \in Nat \ {0}

Targets == {"place", "race", "calendar"}
BatchTargets == Targets \cup {"all"}
Doors == {"cron", "cli", "router"}
Nobody == [door |-> "none", types |-> {}, targets |-> {}, start |-> 0, finish |-> 0]
NoStep == [type |-> "none", target |-> "none", days |-> {}]

VARIABLES
    instant,        \* the instant
    batch,      \* the batch that runs
    todo,       \* its steps ahead
    step        \* its last step, and the days it worked on

vars == <<instant, batch, todo, step>>

Init ==
    /\ instant = 0 /\ batch = Nobody /\ todo = {} /\ step = NoStep

-----------------------------------------------------------------------------
(* Dates and instants. *)

\* The instant at which a day begins in Japan (createJstDate).
JstMidnight(day) == 24 * day - 9

\* Faulty variant: a date without a time is its midnight in UTC.
UtcMidnight(day) == 24 * day

\* What the api takes a date in a query for.
NormalizeValue(day) == JstMidnight(day)

JstDay(t) == (t + 9) \div 24

\* fetch of the race repository: to the end of the day of the finish.
EndOfJstDay(t) == JstMidnight(JstDay(t) + 1) - 1

\* BETWEEN: the places of a day stand at its midnight in Japan.
PlaceDays(days, from, to) == {d \in days : JstMidnight(d) \in from..to}

\* The days of which every race is between two instants, the races being at any hour.
RaceDays(days, from, to) ==
    {d \in days : JstMidnight(d) >= from /\ JstMidnight(d + 1) - 1 <= to}

-----------------------------------------------------------------------------
(* Ranges and their limits. *)

\* raceFinishDateFor and the other ends of a scheduled run, in days from today.
ScheduledReach(type, target) ==
    CASE target = "place" -> 1
      [] target = "calendar" -> 4
      [] OTHER -> IF type = "nar" THEN 4 ELSE 2

StartDate == IF batch.door = "cron" THEN JstDay(batch.start) - 1 ELSE batch.start
FinishDate(type, target) ==
    IF batch.door = "cron" THEN JstDay(batch.start) + ScheduledReach(type, target)
    ELSE batch.finish

\* Faulty variant: a command for all targets has the limit of the wider ones.
MaxRangeDaysOfAny(target, type) ==
    IF target \in {"place", "calendar", "all"} \/ type = "overseas" THEN 390
    ELSE IF type \in {"jra", "nar"} THEN 35 ELSE 10

GetMaxRangeDays(target, type) ==
    IF target \in {"place", "calendar"} \/ type = "overseas" THEN 390
    ELSE IF type \in {"jra", "nar"} THEN 35 ELSE 10

ValidateDateRange(start, finish, maxDays) ==
    /\ finish >= start
    /\ finish - start < maxDays + 1

\* The command line: one target or all, one limit, the smallest of the types'.
CliAccepts(types, target, start, finish) ==
    LET limits == {GetMaxRangeDays(target, type) : type \in types}
    IN  ValidateDateRange(start, finish, CHOOSE m \in limits : \A l \in limits : m <= l)

ExpandTargets(target) == IF target = "all" THEN Targets ELSE {target}

\* The router: every combination by its own limit.
RouterAccepts(types, targets, start, finish) ==
    \A type \in types, target \in targets :
        ValidateDateRange(start, finish, GetMaxRangeDays(target, type))

-----------------------------------------------------------------------------
(* A batch and its steps. *)

\* Time passes between batches.
Tick ==
    /\ batch = Nobody
    /\ instant' \in {t \in Instants : t > instant}
    /\ UNCHANGED <<batch, todo, step>>

\* A workflow asks for no races of a type that lists none; the command line does.
Steps(door, types, targets) ==
    {s \in types \X targets : door = "cli" \/ s # <<"boatrace", "race">>}

Begin(door, types, targets, start, finish) ==
    /\ batch = Nobody
    /\ batch' = [door |-> door, types |-> types, targets |-> targets,
                 start |-> start, finish |-> finish]
    /\ todo' = Steps(door, types, targets)
    /\ step' = NoStep
    /\ UNCHANGED instant

\* The timestamp of the instance decides, however late its steps come.
Schedule == Begin("cron", RaceTypes, Targets, instant, instant)

CommandLine(types, target, range) ==
    /\ CliAccepts(types, target, range[1], range[2])
    /\ Begin("cli", types, ExpandTargets(target), range[1], range[2])

PostBatch(types, targets, range) ==
    /\ RouterAccepts(types, targets, range[1], range[2])
    /\ Begin("router", types, targets, range[1], range[2])

\* The dates go to the scraping Worker as they are.
Scraped(start, finish) == start..finish

Month(day) == day \div DaysPerMonth

\* Races: from the days, the places of the months, or the places the api lists.
RunRace(type, start, finish) ==
    LET near == (start - DaysPerMonth)..(finish + DaysPerMonth)
    IN  CASE type = "nar" -> Scraped(start, finish)
          [] type = "overseas" -> {d \in near : Month(d) \in Month(start)..Month(finish)}
          [] OTHER -> PlaceDays(near, NormalizeValue(start), NormalizeValue(finish))

\* Calendar: the day after the last is asked for, and the api takes all of it.
RunCalendar(start, finish) ==
    RaceDays((start - 1)..(finish + 3), NormalizeValue(start),
             EndOfJstDay(NormalizeValue(finish + 1)))

RunStep(type, target) ==
    /\ <<type, target>> \in todo
    /\ ~\E earlier \in todo : /\ earlier[1] = type
                              /\ \/ earlier[2] = "place" /\ target # "place"
                                 \/ earlier[2] = "race" /\ target = "calendar"
    /\ LET start == StartDate
           finish == FinishDate(type, target)
       IN  step' = [type |-> type, target |-> target,
                    days |-> CASE target = "place" -> Scraped(start, finish)
                               [] target = "race" -> RunRace(type, start, finish)
                               [] OTHER -> RunCalendar(start, finish)]
    /\ todo' = todo \ {<<type, target>>}
    /\ UNCHANGED <<instant, batch>>

End ==
    /\ batch # Nobody /\ todo = {}
    /\ batch' = Nobody /\ step' = NoStep
    /\ UNCHANGED <<instant, todo>>

Next ==
    \/ Tick \/ Schedule \/ End
    \/ \E types \in (SUBSET RaceTypes) \ {{}}, range \in Ranges :
           \/ \E target \in BatchTargets : CommandLine(types, target, range)
           \/ \E targets \in (SUBSET Targets) \ {{}} : PostBatch(types, targets, range)
    \/ \E type \in RaceTypes, target \in Targets : RunStep(type, target)

Spec == Init /\ [][Next]_vars

-----------------------------------------------------------------------------
TypeOK ==
    /\ instant \in Instants
    /\ batch.door \in Doors \cup {"none"}
    /\ batch.types \subseteq RaceTypes /\ batch.targets \subseteq Targets
    /\ todo \subseteq batch.types \X batch.targets
    /\ step # NoStep => <<step.type, step.target>> \in (batch.types \X batch.targets) \ todo

\* A step works on every day it was asked for, whatever the hour in UTC, and on
\* no other but the rest of a month abroad and the day after for the calendar
\* (queryParamParser.ts:127-132, calendar.ts:24-28).
WorksOnAskedDays ==
    step # NoStep =>
        LET asked == StartDate..FinishDate(step.type, step.target)
            spared == CASE step.target = "calendar" -> {FinishDate(step.type, step.target) + 1}
                        [] step.target = "race" /\ step.type = "overseas" ->
                               {d \in step.days : \E a \in asked : Month(a) = Month(d)}
                        [] OTHER -> {}
        IN  asked \subseteq step.days /\ step.days \subseteq asked \cup spared

\* What one door accepts for all targets, or for one, the other accepts too
\* (validation.ts: the checks of cli.ts and router.ts in one place).
DoorsAgree ==
    batch = Nobody =>
    \A types \in (SUBSET RaceTypes) \ {{}}, target \in BatchTargets, range \in Ranges :
        CliAccepts(types, target, range[1], range[2])
        <=> RouterAccepts(types, ExpandTargets(target), range[1], range[2])
=============================================================================
