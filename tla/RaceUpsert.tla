------------------------------ MODULE RaceUpsert ------------------------------
(***************************************************************************)
(* Synchronisation of races (packages/api, RaceRepository.upsert): a       *)
(* synchronisation brings the programmes of some places as the web site    *)
(* listed them, writes them in concurrent chunks that fail independently,  *)
(* and then deletes the rows of those places it did not bring.  Requests   *)
(* that are retried while the first still runs, and batch runs that        *)
(* overlap, make several synchronisations at once.  One D1 statement or    *)
(* one D1 batch is one atomic step.                                        *)
(***************************************************************************)
EXTENDS Naturals, FiniteSets

CONSTANTS
    Races,          \* race ids
    PlaceOf,        \* the place a race id names
    Mechanical,     \* races with a race_stage row; the others: race_condition
    OffDay,         \* races whose date is not the day their place id names
    Cars,           \* car numbers
    Programmes,     \* what the site may list
    Syncs,          \* calls of upsert under way
    ChunkSize,      \* RACE_UPSERT_CHUNK_SIZE
    PlayerChunk,    \* RACE_PLAYER_UPSERT_CHUNK_SIZE
    PruneChunk,     \* STALE_RACE_CHUNK_SIZE, STALE_RACE_PLAYER_CHUNK_SIZE
    MaxChanges,     \* bound: changes of the site
    MaxTroubles     \* bound: failures and crashes

Players == Races \X Cars
PlacesOf(R) == {PlaceOf[r] : r \in R}
Places == PlacesOf(Races)

\* The races listed, and the cars of each player list; {} is no list.
Programme == [listed : SUBSET Races, cars : [Races -> SUBSET Cars]]

ASSUME ConstantsAssumption ==
    /\ DOMAIN PlaceOf = Races
    /\ Mechanical \subseteq Races /\ OffDay \subseteq Races
    /\ Programmes \subseteq Programme /\ Programmes # {}
    /\ \A p \in Programmes : \A r \in Races \ Mechanical : p.cars[r] = {}
    /\ {ChunkSize, PlayerChunk, PruneChunk, MaxChanges, MaxTroubles} \subseteq Nat
    /\ ChunkSize > 0 /\ PlayerChunk > 0 /\ PruneChunk > 0

VARIABLES
    site,           \* the programme the site lists
    races,          \* table race
    related,        \* races with their row of race_stage or race_condition
    players,        \* table race_player
    sync,           \* the local state of each call
    changes,        \* history: changes of the site
    troubles        \* history: failures and crashes

tables == <<races, related, players>>
vars == <<site, tables, sync, changes, troubles>>

Sync == [pc : {"idle", "posted", "insert", "prune", "stage", "race", "players"},
         listed : SUBSET Races, cars : [Races -> SUBSET Cars],
         waiting : SUBSET SUBSET Races, inserted : SUBSET SUBSET Races,
         written : SUBSET Players,
         succeeded : SUBSET Races, failed : SUBSET Races,
         stale : SUBSET Races, slice : SUBSET Races, gone : SUBSET Players,
         tainted : BOOLEAN]

Idle == [pc |-> "idle", listed |-> {}, cars |-> [r \in Races |-> {}],
         waiting |-> {}, inserted |-> {}, written |-> {},
         succeeded |-> {}, failed |-> {},
         stale |-> {}, slice |-> {}, gone |-> {}, tainted |-> FALSE]

Init ==
    /\ site \in Programmes
    /\ races = {} /\ related = {} /\ players = {}
    /\ sync = [y \in Syncs |-> Idle]
    /\ changes = 0 /\ troubles = 0

-----------------------------------------------------------------------------
Active(y) == sync[y].pc # "idle"

\* One slice of S of size n, or all of S when it is no larger.
Slices(S, n) == {c \in SUBSET S : /\ c # {}
                                  /\ \/ Cardinality(c) = n
                                     \/ Cardinality(c) < n /\ c = S}

\* What a slice of a list of the races S may be.
Chunks(S) == {c \in SUBSET S : c # {} /\ Cardinality(c) <= ChunkSize}

\* Faulty variant: slices of chunkArray may overlap.
ChunkingsOverlapping(S) == {C \in SUBSET Chunks(S) : UNION C = S}

\* The ways to slice it; only the last slice may be short.
Chunkings(S) ==
    {C \in SUBSET Chunks(S) :
        /\ UNION C = S
        /\ \A c, d \in C : c # d => c \cap d = {}
        /\ \A c, d \in C : Cardinality(c) < ChunkSize
                           /\ Cardinality(d) < ChunkSize => c = d}

ChangeSite ==
    /\ changes < MaxChanges
    /\ site' \in Programmes \ {site}
    /\ changes' = changes + 1
    /\ UNCHANGED <<tables, sync, troubles>>

\* The scraping Worker has read the pages of the places P and posts them; the
\* request may reach the api at any later time.
Scrape(y, P) ==
    /\ ~Active(y)
    /\ LET R == {r \in site.listed : PlaceOf[r] \in P}
           overlap == \E z \in Syncs : Active(z)
       IN sync' = [z \in Syncs |->
              IF z = y THEN [Idle EXCEPT !.pc = "posted", !.listed = R,
                                         !.cars = site.cars, !.tainted = overlap]
              ELSE [sync[z] EXCEPT !.tainted = Active(z)]]
    /\ UNCHANGED <<site, tables, changes, troubles>>

\* upsert: an empty list returns at once.
Begin(y) ==
    /\ sync[y].pc = "posted"
    /\ IF sync[y].listed = {}
       THEN sync' = [sync EXCEPT ![y] = Idle]
       ELSE \E C \in Chunkings(sync[y].listed) :
                sync' = [sync EXCEPT ![y].pc = "insert", ![y].waiting = C]
    /\ UNCHANGED <<site, tables, changes, troubles>>

\* Faulty variant: the queries are not in one batch, and the second is missing.
InsertRaceOnly(y, c) ==
    /\ sync[y].pc = "insert" /\ c \in sync[y].waiting
    /\ races' = races \cup c
    /\ sync' = [sync EXCEPT ![y].waiting = @ \ {c}, ![y].inserted = @ \cup {c}]
    /\ UNCHANGED <<site, related, players, changes, troubles>>

\* race and race_stage or race_condition in one D1 batch.
InsertRaceTables(y, c) ==
    /\ sync[y].pc = "insert" /\ c \in sync[y].waiting
    /\ races' = races \cup c
    /\ related' = related \cup c
    /\ sync' = [sync EXCEPT ![y].waiting = @ \ {c}, ![y].inserted = @ \cup {c}]
    /\ UNCHANGED <<site, players, changes, troubles>>

PlayersOf(y, R) == {p \in Players : p[1] \in R /\ p[2] \in sync[y].cars[p[1]]}

\* batchInsertRacePlayer, one statement.
InsertRacePlayers(y, c) ==
    /\ sync[y].pc = "insert" /\ c \in sync[y].inserted
    /\ \E rows \in Slices(PlayersOf(y, c) \ sync[y].written, PlayerChunk) :
          /\ players' = players \cup rows
          /\ sync' = [sync EXCEPT ![y].written = @ \cup rows]
    /\ UNCHANGED <<site, races, related, changes, troubles>>

\* The race id names the race type, and only mechanical races list players, so
\* cleanupInvalidRelations finds nothing.
ChunkSucceeds(y, c) ==
    /\ sync[y].pc = "insert" /\ c \in sync[y].inserted
    /\ PlayersOf(y, c) \subseteq sync[y].written
    /\ sync' = [sync EXCEPT ![y].inserted = @ \ {c}, ![y].succeeded = @ \cup c]
    /\ UNCHANGED <<site, tables, changes, troubles>>

Trouble ==
    /\ troubles < MaxTroubles
    /\ troubles' = troubles + 1

\* Whatever the chunk has written so far stays; the other chunks go on.
ChunkFails(y, c) ==
    /\ Trouble
    /\ sync[y].pc = "insert" /\ c \in sync[y].waiting \cup sync[y].inserted
    /\ sync' = [sync EXCEPT ![y].waiting = @ \ {c}, ![y].inserted = @ \ {c},
                            ![y].failed = @ \cup c, ![y].tainted = TRUE]
    /\ UNCHANGED <<site, tables, changes>>

-----------------------------------------------------------------------------
(* pruneStaleRaces *)

\* Faulty variant: places with a failed chunk are pruned too.
FreshPlacesFailedToo(y) == PlacesOf(sync[y].succeeded)

\* buildFreshRaceIdsByPlace
FreshPlaces(y) == PlacesOf(sync[y].succeeded) \ PlacesOf(sync[y].failed)

\* All chunks have settled.
Settled(y) ==
    /\ sync[y].pc = "insert"
    /\ sync[y].waiting = {} /\ sync[y].inserted = {}

\* Faulty variant: the search joins the stage or condition of a race.
StaleRacesWithStage(y) == {r \in (races \cap related) \ (sync[y].succeeded \cup OffDay) :
                              PlaceOf[r] \in FreshPlaces(y)}

StaleRaces(y) == {r \in races \ (sync[y].succeeded \cup OffDay) :
                     PlaceOf[r] \in FreshPlaces(y)}

FindStaleRaces(y) ==
    /\ Settled(y)
    /\ sync' = [sync EXCEPT ![y].pc = "prune", ![y].stale = StaleRaces(y)]
    /\ UNCHANGED <<site, tables, changes, troubles>>

\* deleteStaleRaceRows: three statements for each slice.
DeleteConditions(y) ==
    /\ sync[y].pc = "prune"
    /\ \E slice \in Slices(sync[y].stale, PruneChunk) :
          /\ related' = related \ (slice \ Mechanical)
          /\ sync' = [sync EXCEPT ![y].pc = "stage", ![y].slice = slice]
    /\ UNCHANGED <<site, races, players, changes, troubles>>

DeleteStages(y) ==
    /\ sync[y].pc = "stage"
    /\ related' = related \ (sync[y].slice \cap Mechanical)
    /\ sync' = [sync EXCEPT ![y].pc = "race"]
    /\ UNCHANGED <<site, races, players, changes, troubles>>

\* Faulty variant: only the first slice is deleted.
DeleteFirstSlice(y) ==
    /\ sync[y].pc = "race"
    /\ races' = races \ sync[y].slice
    /\ sync' = [sync EXCEPT ![y].pc = "prune", ![y].slice = {}, ![y].stale = {}]
    /\ UNCHANGED <<site, related, players, changes, troubles>>

DeleteRaces(y) ==
    /\ sync[y].pc = "race"
    /\ races' = races \ sync[y].slice
    /\ sync' = [sync EXCEPT ![y].pc = "prune", ![y].slice = {},
                            ![y].stale = @ \ sync[y].slice]
    /\ UNCHANGED <<site, related, players, changes, troubles>>

\* The error is logged and the players' turn comes.
PruneFails(y) ==
    /\ Trouble
    /\ \/ Settled(y) /\ FreshPlaces(y) # {}
       \/ sync[y].pc = "prune" /\ sync[y].stale # {}
       \/ sync[y].pc \in {"stage", "race"}
    /\ sync' = [sync EXCEPT ![y].pc = "prune", ![y].stale = {}, ![y].slice = {},
                            ![y].tainted = TRUE]
    /\ UNCHANGED <<site, tables, changes>>

-----------------------------------------------------------------------------
(* pruneStaleRacePlayers *)

\* Races without a player list keep their rows.
StalePlayers(y) == {p \in players : /\ p[1] \in sync[y].succeeded
                                    /\ sync[y].cars[p[1]] # {}
                                    /\ p[2] \notin sync[y].cars[p[1]]}

FindStalePlayers(y) ==
    /\ sync[y].pc = "prune" /\ sync[y].stale = {}
    /\ sync' = [sync EXCEPT ![y].pc = "players", ![y].gone = StalePlayers(y)]
    /\ UNCHANGED <<site, tables, changes, troubles>>

DeleteRacePlayers(y) ==
    /\ sync[y].pc = "players"
    /\ \E rows \in Slices(sync[y].gone, PruneChunk) :
          /\ players' = players \ rows
          /\ sync' = [sync EXCEPT ![y].gone = @ \ rows]
    /\ UNCHANGED <<site, races, related, changes, troubles>>

PrunePlayersFails(y) ==
    /\ Trouble
    /\ \/ /\ sync[y].pc = "prune" /\ sync[y].stale = {}
          /\ \E r \in sync[y].succeeded : sync[y].cars[r] # {}
       \/ sync[y].pc = "players" /\ sync[y].gone # {}
    /\ sync' = [sync EXCEPT ![y].pc = "players", ![y].gone = {},
                            ![y].tainted = TRUE]
    /\ UNCHANGED <<site, tables, changes>>

\* upsert returns its result.
Return(y) ==
    /\ sync[y].pc = "players" /\ sync[y].gone = {}
    /\ sync' = [sync EXCEPT ![y] = Idle]
    /\ UNCHANGED <<site, tables, changes, troubles>>

\* The request never arrives, or the Worker is evicted.
Crash(y) ==
    /\ Trouble /\ Active(y)
    /\ sync' = [sync EXCEPT ![y] = Idle]
    /\ UNCHANGED <<site, tables, changes>>

-----------------------------------------------------------------------------
Proceed(y) ==
    \/ Begin(y)
    \/ \E c \in sync[y].waiting : InsertRaceTables(y, c)
    \/ \E c \in sync[y].inserted : InsertRacePlayers(y, c) \/ ChunkSucceeds(y, c)
    \/ FindStaleRaces(y) \/ DeleteConditions(y) \/ DeleteStages(y)
    \/ DeleteRaces(y) \/ FindStalePlayers(y) \/ DeleteRacePlayers(y) \/ Return(y)

Fail(y) ==
    \/ \E c \in sync[y].waiting \cup sync[y].inserted : ChunkFails(y, c)
    \/ PruneFails(y) \/ PrunePlayersFails(y) \/ Crash(y)

Next ==
    \/ ChangeSite
    \/ \E y \in Syncs : \/ \E P \in SUBSET Places : Scrape(y, P)
                        \/ Proceed(y) \/ Fail(y)

Spec == Init /\ [][Next]_vars

\* Calls go on, and the batch asks for all places again and again.
Fairness ==
    /\ \A y \in Syncs : WF_vars(Proceed(y))
    /\ SF_vars(\E y \in Syncs : Scrape(y, Places))

FairSpec == Spec /\ Fairness

-----------------------------------------------------------------------------
\* Each race a call was given waits, is being written, or has been counted
\* once, as a success or as a failure.
Open(s) == s.waiting \cup s.inserted
Counted(s) == s.succeeded \cup s.failed

Accounted(s) ==
    /\ s.waiting \cap s.inserted = {}
    /\ \A c, d \in Open(s) : c # d => c \cap d = {}
    /\ (UNION Open(s)) \cap Counted(s) = {}
    /\ s.succeeded \cap s.failed = {}
    /\ s.pc # "insert" => Open(s) = {}
    /\ s.pc \in {"idle", "posted"} => Counted(s) = {}
    /\ s.pc \notin {"idle", "posted"} =>
           s.listed = (UNION Open(s)) \cup Counted(s)

\* The types of the tables and of the calls, and the result of upsert counts
\* every race exactly once.
TypeOK ==
    /\ site \in Programme
    /\ races \subseteq Races /\ related \subseteq Races
    /\ players \subseteq Players
    /\ sync \in [Syncs -> Sync]
    /\ changes \in Nat /\ troubles \in Nat
    /\ \A y \in Syncs : Accounted(sync[y])

\* The call s was given the programme of the place of r, without r.
Missed(s, r) ==
    /\ r \notin s.listed
    /\ PlaceOf[r] \in PlacesOf(s.listed)

\* Pruning deletes a row of a race only for a call that brought the programme
\* of its place without the race: not because a chunk with the race failed, was
\* still on its way or belongs to another place.
PrunesOnlyMissed ==
    [][\A r \in (races \ races') \cup (related \ related') :
          \E y \in Syncs : Missed(sync[y], r)]_vars

\* Unless something failed, a race without its stage or condition (which the
\* public fetch hides or rejects) is in the middle of being pruned, however
\* many synchronisations overlap.
HalvesArePruned ==
    troubles = 0 =>
        \A r \in races \ related : \E y \in Syncs : r \in sync[y].slice

At(R, P) == {r \in R \ OffDay : PlaceOf[r] \in P}

\* The tables hold, for the races R with the player lists cars, what the site
\* listed at the places of R.  (An overlap may leave a stage or condition whose
\* race is gone; nothing reads it, and nothing deletes it.)
Mirror(R, cars) ==
    LET P == PlacesOf(R) IN
        /\ At(races, P) = At(R, P) /\ R \subseteq races \cap related
        /\ \A r \in R : cars[r] # {} =>
               {p \in players : p[1] = r} = {r} \X cars[r]

\* A call that neither failed in part nor ran beside another leaves the tables
\* as the site listed its places.
CleanSyncMirrors ==
    \A y \in Syncs :
        sync[y].pc = "players" /\ sync[y].gone = {} /\ ~sync[y].tainted =>
            Mirror(sync[y].listed, sync[y].cars)

\* When the site and the infrastructure calm down, the tables become what the
\* site lists, whatever failures and overlaps came before.
Converges == <>[]Mirror(site.listed, site.cars)
=============================================================================
