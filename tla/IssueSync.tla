------------------------------- MODULE IssueSync -------------------------------
(***************************************************************************)
(* GitHub issues that follow the condition of the system: the monitors of  *)
(* packages/api (error statistics, /health, data freshness, data quality)  *)
(* and the report of the batch workflow all end in                         *)
(* syncGithubIssueByCondition of packages/core, which looks for the open   *)
(* issue of its title, page by page, and then comments, creates or closes. *)
(* Checks of one title may overlap (a slow cron run, two instances of the  *)
(* workflow), every request to GitHub may fail, and people close issues.   *)
(* An open issue is a record in the list as GitHub returns it, newest      *)
(* first; a number is free again once the issue is closed and no check     *)
(* holds it.                                                               *)
(***************************************************************************)
EXTENDS Naturals, Sequences, FiniteSets

CONSTANTS
    Checks,             \* checks that may run at the same time
    Titles,             \* issue titles: one per monitored condition
    Pinged,             \* the titles whose condition is a ping of /health
    Numbers,            \* bound: issue numbers in use
    PerPage,            \* issues per page of the list
    MaxPings,           \* MAX_PING_ATTEMPTS
    Absent              \* no issue, no title

Issue == [number : Numbers, title : Titles]
Check == [pc : {"idle", "measure", "list", "comment", "create", "close"},
          title : Titles \cup {Absent},
          recovered : BOOLEAN,
          pings : 0..MaxPings,
          page : Nat,
          existing : Numbers \cup {Absent}]

ConstantsAssumption ==
    /\ Pinged \subseteq Titles
    /\ {PerPage, MaxPings} \subseteq Nat \ {0}
    /\ IsFiniteSet(Numbers)
    /\ Absent \notin Titles \cup Numbers

VARIABLES
    broken,             \* the titles whose condition is bad now
    up,                 \* requests get through to GitHub and to /health
    issues,             \* the open issues, newest first
    check,              \* the local state of each check
    crossed,            \* history: titles whose list went stale in a check
    lone                \* history: checks nothing has interfered with

vars == <<broken, up, issues, check, crossed, lone>>

Idle == [pc |-> "idle", title |-> Absent, recovered |-> FALSE, pings |-> 0,
         page |-> 0, existing |-> Absent]

Init ==
    /\ broken = {}
    /\ up = TRUE
    /\ issues = <<>>
    /\ check = [c \in Checks |-> Idle]
    /\ crossed = {}
    /\ lone = {}

-----------------------------------------------------------------------------
Open == {issues[n] : n \in 1..Len(issues)}
OpenOf(x) == {i \in Open : i.title = x}
At(c, step) == check[c].pc = step
Running(x) == {c \in Checks : check[c].title = x}
\* Checks that have begun to read the list.
Listing == {c \in Checks : ~At(c, "idle") /\ ~At(c, "measure")}
FreeNumbers ==
    {n \in Numbers : /\ \A i \in Open : i.number # n
                     /\ \A c \in Checks : check[c].existing # n}

\* The list shifted under the checks that were reading it.
Shifted == {c \in Listing : At(c, "list") /\ check[c].page > 1}

\* The condition changes by itself.
Break(x) ==
    /\ x \notin broken /\ broken' = broken \cup {x}
    /\ UNCHANGED <<up, issues, check, crossed, lone>>

Repair(x) ==
    /\ x \in broken /\ broken' = broken \ {x}
    /\ UNCHANGED <<up, issues, check, crossed, lone>>

\* An outage of the network or of GitHub begins or ends.
Outage ==
    /\ up' = ~up
    /\ UNCHANGED <<broken, issues, check, crossed, lone>>

-----------------------------------------------------------------------------
(* One check of one title, from its cron or at the end of a workflow. *)

Start(c, x) ==
    /\ At(c, "idle")
    /\ check' = [check EXCEPT ![c].pc = "measure", ![c].title = x]
    /\ lone' = IF Running(x) = {} THEN lone \cup {c} ELSE lone \ (Running(x) \cup {c})
    /\ UNCHANGED <<broken, up, issues, crossed>>

\* The condition is known: the list of open issues is read next.
Measured(c, recovered) ==
    /\ check' = [check EXCEPT ![c].pc = "list", ![c].recovered = recovered,
                              ![c].pings = 0, ![c].page = 1]
    /\ crossed' = IF Running(check[c].title) \cap Listing = {} THEN crossed
                  ELSE crossed \cup {check[c].title}
    /\ UNCHANGED <<broken, up, issues, lone>>

\* errorCount = 0, raceCount > 0, count = 0, no failed step.
Evaluate(c) ==
    /\ At(c, "measure") /\ check[c].title \notin Pinged
    /\ Measured(c, check[c].title \notin broken)

\* Faulty variant: the attempts are counted from the wrong end.
HasMoreAttemptsLate(pings) == pings <= MaxPings

\* for (attempt = 1; attempt <= MAX_PING_ATTEMPTS; attempt++)
HasMoreAttempts(pings) == pings + 1 < MaxPings

\* pingHealth: a healthy answer ends the attempts; a bad one or none, which a
\* healthy Worker may give in an outage, is tried again up to MAX_PING_ATTEMPTS.
PingOk(c) ==
    /\ At(c, "measure") /\ check[c].title \in Pinged \ broken
    /\ Measured(c, TRUE)

PingFailed(c) ==
    /\ At(c, "measure") /\ check[c].title \in Pinged
    /\ up => check[c].title \in broken
    /\ IF HasMoreAttempts(check[c].pings)
       THEN /\ check' = [check EXCEPT ![c].pings = @ + 1]
            /\ UNCHANGED <<broken, up, issues, crossed, lone>>
       ELSE Measured(c, FALSE)

\* Faulty variant: one page is taken for the whole list.
OnePageOnly(p) == TRUE

\* fetchAllPages: a page that is not full is the last.
IsLastPage(p) == Len(p) < PerPage

\* The issues at the places (page - 1) * PerPage + 1 to page * PerPage.
Page(n) ==
    LET last == IF n * PerPage < Len(issues) THEN n * PerPage ELSE Len(issues)
    IN SubSeq(issues, (n - 1) * PerPage + 1, last)

\* issues.find((issue) => issue.title === title), within a page.
FindOnPage(p, x) ==
    LET hits == {n \in 1..Len(p) : p[n].title = x}
    IN IF hits = {} THEN Absent
       ELSE p[CHOOSE n \in hits : \A m \in hits : n <= m].number

\* syncOnRecovery and syncOnAlert: what follows the list.
AfterList(c, existing) ==
    IF existing # Absent
    THEN [check[c] EXCEPT !.pc = "comment", !.existing = existing, !.page = 0]
    ELSE IF check[c].recovered THEN Idle
    ELSE [check[c] EXCEPT !.pc = "create", !.page = 0]

ReadPage(c) ==
    LET p == Page(check[c].page)
        existing == IF check[c].existing # Absent THEN check[c].existing
                    ELSE FindOnPage(p, check[c].title)
    IN /\ At(c, "list")
       /\ check' = [check EXCEPT ![c] =
                       IF IsLastPage(p) THEN AfterList(c, existing)
                       ELSE [check[c] EXCEPT !.page = @ + 1, !.existing = existing]]
       /\ UNCHANGED <<broken, up, issues, crossed, lone>>

\* Faulty variant: the comment is taken for the whole recovery.
AfterCommentIdle(c) == Idle

AfterComment(c) ==
    IF check[c].recovered THEN [check[c] EXCEPT !.pc = "close"] ELSE Idle

\* addComment: on an issue that was closed meanwhile as well.
AddComment(c) ==
    /\ At(c, "comment")
    /\ check' = [check EXCEPT ![c] = AfterComment(c)]
    /\ UNCHANGED <<broken, up, issues, crossed, lone>>

CreateIssue(c) ==
    /\ At(c, "create")
    /\ \E n \in FreeNumbers :
          issues' = <<[number |-> n, title |-> check[c].title]>> \o issues
    /\ check' = [check EXCEPT ![c] = Idle]
    /\ UNCHANGED <<broken, up, crossed, lone>>

\* The issue with number n, if it is there, leaves the list of open issues.
Closed(n) ==
    /\ \/ \E m \in 1..Len(issues) :
             /\ issues[m].number = n
             /\ issues' = SubSeq(issues, 1, m - 1) \o SubSeq(issues, m + 1, Len(issues))
       \/ (\A m \in 1..Len(issues) : issues[m].number # n) /\ UNCHANGED issues
    /\ crossed' = crossed \cup {check[d].title : d \in Shifted}

CloseIssue(c) ==
    /\ At(c, "close")
    /\ Closed(check[c].existing)
    /\ check' = [check EXCEPT ![c] = Idle]
    /\ lone' = lone \ Shifted
    /\ UNCHANGED <<broken, up>>

\* A request of a check fails in an outage; the exception is logged and the
\* check ends, as it does without statistics (errorMonitorCheck).  A ping never
\* throws: what goes wrong is a failed attempt.
Fail(c) ==
    /\ ~up /\ ~At(c, "idle")
    /\ At(c, "measure") => check[c].title \notin Pinged
    /\ check' = [check EXCEPT ![c] = Idle]
    /\ lone' = lone \ {c}
    /\ UNCHANGED <<broken, up, issues, crossed>>

\* Somebody closes an issue by hand.
CloseByHand(i) ==
    /\ i \in Open
    /\ Closed(i.number)
    /\ lone' = lone \ (Shifted \cup Running(i.title))
    /\ UNCHANGED <<broken, up, check>>

Step(c) ==
    \/ Evaluate(c) \/ PingOk(c) \/ PingFailed(c) \/ ReadPage(c)
    \/ AddComment(c) \/ CreateIssue(c) \/ CloseIssue(c) \/ Fail(c)

Next ==
    \/ Outage \/ \E x \in Titles : Break(x) \/ Repair(x)
    \/ \E c \in Checks : Step(c) \/ \E x \in Titles : Start(c, x)
    \/ \E i \in Issue : CloseByHand(i)

Spec == Init /\ [][Next]_vars

\* The crons fire and checks end.
FairSpec ==
    /\ Spec
    /\ \A c \in Checks : WF_vars(Step(c))
    /\ \A x \in Titles : SF_vars(\E c \in Checks : Start(c, x))

-----------------------------------------------------------------------------
(* Properties. *)

TypeOK ==
    /\ broken \in SUBSET Titles /\ up \in BOOLEAN
    /\ issues \in Seq(Issue)
    /\ \A m, n \in 1..Len(issues) : issues[m].number = issues[n].number => m = n
    /\ check \in [Checks -> Check]
    /\ crossed \in SUBSET Titles
    /\ lone \in SUBSET Checks

\* A condition has one open issue, unless two of its checks read the list
\* before either wrote, or an issue was closed between two pages of a list.
OneIssuePerTitle ==
    \A x \in Titles \ crossed : Cardinality(OpenOf(x)) <= 1

\* A check that nothing interfered with and whose requests succeed leaves an
\* open issue when it found the condition bad, and none (one less, if there
\* were several) when it found it recovered.
LoneCheckSettled ==
    \A c \in Checks, x \in Titles :
        /\ c \in Listing /\ check[c].title = x /\ check'[c] = Idle
        /\ c \in lone /\ c \in lone'
        => IF check[c].recovered
           THEN OpenOf(x)' = {} \/ Cardinality(OpenOf(x)') < Cardinality(OpenOf(x))
           ELSE OpenOf(x)' # {}

LoneCheckSettles == [][LoneCheckSettled]_vars

\* Once requests get through, a condition that stays good has its issues closed
\* and one that stays bad gets an issue, whatever failed on the way.
IssuesFollowCondition ==
    \A x \in Titles :
        /\ <>[](up /\ x \notin broken) => []<>(OpenOf(x) = {})
        /\ <>[](up /\ x \in broken) => []<>(OpenOf(x) # {})
=============================================================================
