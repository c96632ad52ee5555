------------------------------ MODULE AutoRelease ------------------------------
(***************************************************************************)
(* The automatic release after a merge, and the way of a release to the    *)
(* release notes the front shows.  The job of deploy.yml reads the last    *)
(* tag, the commits on main since then and the label of each, and decides: *)
(* publish a patch or minor release, keep a draft of the next major one    *)
(* for a person to publish, or nothing.  Main may grow between any two of  *)
(* its requests.  Only one job runs at a time (concurrency: auto-release). *)
(***************************************************************************)
EXTENDS Naturals, SequencesExt

CONSTANTS
    MaxCommits,         \* bound: commits on main
    MaxFailures         \* bound: requests that fail, and jobs that are killed

\* The labels a change can have; a commit without a number belongs to no pull
\* request that the job could look up.
Labels == {"none", "patch", "minor", "major"}
Levels == Labels \cup {"unlabelled", "unresolved"}

ConstantsAssumption == {MaxCommits, MaxFailures} \subseteq Nat

VARIABLES
    main,               \* the levels of the commits on main
    published,          \* releases in the order of their publication
    drafts,             \* draft releases
    job,                \* the running job
    releaseNote,        \* table release_note: version -> is it a draft
    failures            \* requests that failed so far

vars == <<main, published, drafts, job, releaseNote, failures>>

First == [version |-> <<1, 0, 0>>, at |-> 0, noted |-> {}, automatic |-> FALSE,
          checked |-> 0]
Idle == [step |-> "idle"]

Init ==
    /\ main = <<>>
    /\ published = <<First>>
    /\ drafts = {}
    /\ job = Idle
    /\ releaseNote = [v \in {First.version} |-> FALSE]
    /\ failures = 0

-----------------------------------------------------------------------------
(* Versions and decisions. *)

NextVersion(version, bump) ==
    IF bump = "minor" THEN <<version[1], version[2] + 1, 0>>
    ELSE <<version[1], version[2], version[3] + 1>>
NextMajorVersion(version) == <<version[1] + 1, 0, 0>>

\* "none" changes are left aside; one commit of unknown origin stops everything.
Releasable(levels) == levels \ {"none"}

\* Faulty variant: changes without a label count as patches.
UnlabelledIsEligible(levels) ==
    Releasable(levels) # {} /\ Releasable(levels) \subseteq {"patch", "minor", "unlabelled"}

AutoReleaseEligible(levels) ==
    Releasable(levels) # {} /\ Releasable(levels) \subseteq {"patch", "minor"}
MajorDraftEligible(levels) ==
    "major" \in levels /\ Releasable(levels) \subseteq {"patch", "minor", "major"}

\* Faulty variant: drafts count as releases.
LatestOrDraft ==
    IF drafts = {} THEN Last(published).version ELSE (CHOOSE d \in drafts : TRUE).version

LatestReleaseTag == Last(published).version

\* The commits of main that the tag of a version does not contain.
CommitsSince(version) ==
    {i \in DOMAIN main : \A r \in Range(published) : r.version = version => i > r.at}

Versions == {r.version : r \in Range(published)} \cup {d.version : d \in drafts}

-----------------------------------------------------------------------------
(* People. *)

\* A change is merged, or pushed directly.
Merge ==
    /\ Len(main) < MaxCommits
    /\ \E level \in Levels : main' = Append(main, level)
    /\ UNCHANGED <<published, drafts, job, releaseNote, failures>>

\* Someone adds the label that was missing.
Label ==
    /\ \E i \in DOMAIN main, level \in Labels :
        main[i] = "unlabelled" /\ main' = [main EXCEPT ![i] = level]
    /\ UNCHANGED <<published, drafts, job, releaseNote, failures>>

\* The tag of a draft is created when a person publishes it, at what main is then.
Publish ==
    /\ \E draft \in drafts :
        /\ drafts' = drafts \ {draft}
        /\ published' = Append(published,
            [version |-> draft.version, at |-> Len(main), noted |-> draft.noted,
             automatic |-> FALSE, checked |-> 0])
    /\ UNCHANGED <<main, job, releaseNote, failures>>

\* backfillReleaseNotes: INSERT OR IGNORE of all releases, drafts among them.
Backfill ==
    /\ \E v \in Versions : v \notin DOMAIN releaseNote
    /\ releaseNote' = [v \in DOMAIN releaseNote \cup Versions |->
                          IF v \in DOMAIN releaseNote THEN releaseNote[v]
                          ELSE \E draft \in drafts : draft.version = v]
    /\ UNCHANGED <<main, published, drafts, job, failures>>

-----------------------------------------------------------------------------
(* The job. *)

At(step) == job.step = step

Start ==
    /\ At("idle") /\ main # <<>>
    /\ job' = [step |-> "compare", last |-> LatestReleaseTag]
    /\ UNCHANGED <<main, published, drafts, releaseNote, failures>>

\* fetchMergedPrNumbersSinceTag
Compare ==
    LET commits == CommitsSince(job.last)
    IN /\ At("compare")
       /\ job' = IF \E i \in commits : main[i] = "unresolved" THEN Idle
                 ELSE [step |-> "labels", last |-> job.last, commits |-> commits]
       /\ UNCHANGED <<main, published, drafts, releaseNote, failures>>

\* The labels are read, and the job decides.  A label that cannot be read is a
\* missing one.
Decide ==
    /\ At("labels")
    /\ \E unread \in SUBSET job.commits :
        LET levels == {main[i] : i \in job.commits \ unread}
                      \cup IF unread = {} THEN {} ELSE {"unlabelled"}
            release(kind, version) ==
                [step |-> "summary", kind |-> kind, version |-> version,
                 commits |-> job.commits]
        IN /\ failures + Cardinality(unread) <= MaxFailures
           /\ failures' = failures + Cardinality(unread)
           /\ job' =
                CASE AutoReleaseEligible(levels) ->
                        release("automatic", NextVersion(job.last,
                            IF "minor" \in levels THEN "minor" ELSE "patch"))
                  [] MajorDraftEligible(levels) ->
                        release("draft", NextMajorVersion(job.last))
                  [] OTHER -> Idle
    /\ UNCHANGED <<main, published, drafts, releaseNote>>

\* generateReleaseSummary asks for the last tag and the commits once more.
GenerateReleaseSummary ==
    /\ At("summary")
    /\ job' = [step |-> IF job.kind = "draft" THEN "find" ELSE "create",
               kind |-> job.kind, version |-> job.version, commits |-> job.commits,
               noted |-> CommitsSince(LatestReleaseTag), found |-> FALSE]
    /\ UNCHANGED <<main, published, drafts, releaseNote, failures>>

\* findReleaseByTagName
FindDraft ==
    /\ At("find")
    /\ job' = [job EXCEPT !.step = "create",
                          !.found = \E draft \in drafts : draft.version = job.version]
    /\ UNCHANGED <<main, published, drafts, releaseNote, failures>>

\* PATCH writes the body of the release it found, whatever became of it.
UpdateDraft ==
    LET Noted(r) == IF r.version = job.version THEN [r EXCEPT !.noted = job.noted] ELSE r
    IN /\ At("create") /\ job.kind = "draft" /\ job.found
       /\ drafts' = {Noted(draft) : draft \in drafts}
       /\ published' = [i \in DOMAIN published |-> Noted(published[i])]
       /\ job' = Idle
       /\ UNCHANGED <<main, releaseNote, failures>>

\* POST of a draft; the tag of another release is refused.
CreateDraft ==
    /\ At("create") /\ job.kind = "draft" /\ ~job.found
    /\ drafts' = IF job.version \in Versions THEN drafts
                 ELSE drafts \cup {[version |-> job.version, noted |-> job.noted]}
    /\ job' = Idle
    /\ UNCHANGED <<main, published, releaseNote, failures>>

\* POST of a release: target_commitish is main as it is now.
CreateRelease ==
    /\ At("create") /\ job.kind = "automatic"
    /\ IF job.version \in Versions THEN job' = Idle /\ UNCHANGED published
       ELSE /\ published' = Append(published,
                [version |-> job.version, at |-> Len(main), noted |-> job.noted,
                 automatic |-> TRUE,
                 checked |-> Max({0} \cup job.commits)])
            /\ job' = [step |-> "dual write", version |-> job.version]
    /\ UNCHANGED <<main, drafts, releaseNote, failures>>

\* writeReleaseNoteBestEffort
DualWrite ==
    /\ At("dual write")
    /\ releaseNote' = [v \in DOMAIN releaseNote \cup {job.version} |->
                          v # job.version /\ releaseNote[v]]
    /\ job' = Idle
    /\ UNCHANGED <<main, published, drafts, failures>>

\* A request fails, or the job is killed: it ends where it stands.  A failing
\* dual write ends it as well.
Fail ==
    /\ job # Idle /\ failures < MaxFailures
    /\ failures' = failures + 1
    /\ job' = Idle
    /\ UNCHANGED <<main, published, drafts, releaseNote>>

Next ==
    \/ Merge \/ Label \/ Publish \/ Backfill
    \/ Start \/ Compare \/ Decide \/ GenerateReleaseSummary \/ FindDraft
    \/ UpdateDraft \/ CreateDraft \/ CreateRelease \/ DualWrite \/ Fail

Spec == Init /\ [][Next]_vars

-----------------------------------------------------------------------------
(* Properties. *)

TypeOK ==
    /\ main \in Seq(Levels) /\ Len(main) <= MaxCommits
    /\ \A r \in Range(published) : r.at <= Len(main) /\ r.noted \subseteq DOMAIN main
    /\ \A draft \in drafts : draft.noted \subseteq DOMAIN main
    /\ DOMAIN releaseNote \subseteq Versions
    /\ job.step \in {"idle", "compare", "labels", "summary", "find", "create", "dual write"}
    /\ failures \in 0..MaxFailures

Older(a, b) ==
    \/ a[1] < b[1]
    \/ a[1] = b[1] /\ a[2] < b[2]
    \/ a[1] = b[1] /\ a[2] = b[2] /\ a[3] < b[3]

\* A release is newer than every release before it, drafts published by people
\* and automatic releases together, and a draft is ahead of them all.
VersionsIncrease ==
    /\ \A i, j \in DOMAIN published :
        i < j => Older(published[i].version, published[j].version)
    /\ \A r \in Range(published), draft \in drafts : Older(r.version, draft.version)

\* What an automatic release brings.
Brought(i) == (published[i - 1].at + 1)..published[i].at

\* A change that is not labelled a patch, a minor one or none gets into an
\* automatic release only when it was merged after the job had listed the
\* commits.
MajorAwaitsPerson ==
    \A i \in DOMAIN published : published[i].automatic =>
        \A c \in Brought(i) : c <= published[i].checked => main[c] \in {"none", "patch", "minor"}
=============================================================================
