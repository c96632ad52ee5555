--------------------------- MODULE RaceUpsertProofs ---------------------------
(***************************************************************************)
(* Proofs about RaceUpsert, for any races, places, calls and slice sizes:  *)
(* every race of a call is counted once; pruning deletes only what a call  *)
(* missed in the programme of its place; a race without its companion row  *)
(* is in the middle of being pruned.                                       *)
(***************************************************************************)
EXTENDS RaceUpsert, TLAPS

\* What a call is about to delete it missed, and it deletes slice by slice.
Pruning(s) ==
    /\ s.slice \subseteq s.stale
    /\ s.pc \notin {"stage", "race"} => s.slice = {}
    /\ \A r \in s.stale : Missed(s, r)

PruneInv == TypeOK /\ \A y \in Syncs : Pruning(sync[y])

\* The blank record of a call has its type and accounts for nothing.
LEMMA IdleType == Idle \in Sync /\ Accounted(Idle) /\ Pruning(Idle)
BY DEF Idle, Sync, Accounted, Open, Counted, Pruning

\* A slice is a part of what is sliced.
LEMMA SlicesAreSubsets ==
  ASSUME NEW S, NEW n, NEW c \in Slices(S, n)
  PROVE  c \subseteq S /\ c # {}
BY DEF Slices

\* Only the record of one call changes, to one that is as good.
LEMMA OneCall ==
  ASSUME PruneInv, NEW y \in Syncs, NEW s \in Sync, Accounted(s), Pruning(s),
         sync' = [sync EXCEPT ![y] = s]
  PROVE  /\ sync' \in [Syncs -> Sync]
         /\ \A z \in Syncs : Accounted(sync'[z]) /\ Pruning(sync'[z])
BY DEF PruneInv, TypeOK

\* The site's programme is one.
LEMMA SiteChanges ==
  ASSUME PruneInv, ChangeSite
  PROVE  PruneInv'
<1>1. site' \in Programme /\ changes' \in Nat
  BY ConstantsAssumption DEF PruneInv, TypeOK, ChangeSite
<1> QED BY <1>1 DEF PruneInv, TypeOK, ChangeSite, tables

\* A call starts blank but for its list; beside it the others are tainted.
LEMMA ScrapeKeeps ==
  ASSUME PruneInv, NEW y \in Syncs, NEW P, Scrape(y, P)
  PROVE  PruneInv'
<1> DEFINE R == {r \in site.listed : PlaceOf[r] \in P}
           overlap == \E z \in Syncs : Active(z)
           s == [Idle EXCEPT !.pc = "posted", !.listed = R,
                             !.cars = site.cars, !.tainted = overlap]
<1>1. s \in Sync /\ Accounted(s) /\ Pruning(s)
  <2>1. R \in SUBSET Races /\ site.cars \in [Races -> SUBSET Cars]
    BY DEF PruneInv, TypeOK, Programme
  <2>2. overlap \in BOOLEAN
    OBVIOUS
  <2> HIDE DEF R, overlap
  <2>3. s \in Sync
    BY <2>1, <2>2 DEF Idle, Sync
  <2>4. /\ s.pc = "posted" /\ s.waiting = {} /\ s.inserted = {}
        /\ s.succeeded = {} /\ s.failed = {} /\ s.stale = {} /\ s.slice = {}
    BY DEF Idle
  <2> HIDE DEF s
  <2> QED BY <2>3, <2>4 DEF Accounted, Open, Counted, Pruning
<1>2. sync' = [z \in Syncs |-> IF z = y THEN s
                               ELSE [sync[z] EXCEPT !.tainted = Active(z)]]
  BY DEF Scrape
<1>3. ASSUME NEW z \in Syncs
      PROVE  sync'[z] \in Sync /\ Accounted(sync'[z]) /\ Pruning(sync'[z])
  <2>1. CASE z = y
    BY <1>1, <1>2, <2>1
  <2>2. CASE z # y
    <3> DEFINE t == [sync[z] EXCEPT !.tainted = Active(z)]
    <3>1. sync'[z] = t
      BY <1>2, <2>2
    <3>2. /\ sync[z] \in Sync /\ Accounted(sync[z]) /\ Pruning(sync[z])
          /\ Active(z) \in BOOLEAN
      BY DEF PruneInv, TypeOK, Active
    <3>3. t \in Sync
      BY <3>2 DEF Sync
    <3>4. /\ t.pc = sync[z].pc /\ t.listed = sync[z].listed
          /\ t.waiting = sync[z].waiting /\ t.inserted = sync[z].inserted
          /\ t.succeeded = sync[z].succeeded /\ t.failed = sync[z].failed
          /\ t.stale = sync[z].stale /\ t.slice = sync[z].slice
      BY <3>2 DEF Sync
    <3> HIDE DEF t
    <3>5. Accounted(t) /\ Pruning(t)
      BY <3>2, <3>4 DEF Accounted, Open, Counted, Pruning, Missed
    <3> QED BY <3>1, <3>3, <3>5
  <2> QED BY <2>1, <2>2
<1>4. sync' \in [Syncs -> Sync]
  BY <1>2, <1>3
<1> QED BY <1>3, <1>4 DEF PruneInv, TypeOK, Scrape, tables

\* The list is sliced; each race of it is in one slice.
LEMMA BeginKeeps ==
  ASSUME PruneInv, NEW y \in Syncs, Begin(y)
  PROVE  PruneInv'
<1>1. sync' \in [Syncs -> Sync]
      /\ \A z \in Syncs : Accounted(sync'[z]) /\ Pruning(sync'[z])
  <2>1. CASE sync[y].listed = {}
    BY <2>1, OneCall, IdleType DEF Begin
  <2>2. CASE sync[y].listed # {}
    <3>1. PICK C \in Chunkings(sync[y].listed) :
             sync' = [sync EXCEPT ![y].pc = "insert", ![y].waiting = C]
      BY <2>2 DEF Begin
    <3> DEFINE s == [sync[y] EXCEPT !.pc = "insert", !.waiting = C]
    <3>2. sync' = [sync EXCEPT ![y] = s]
      BY <3>1 DEF PruneInv, TypeOK
    <3>3. /\ sync[y] \in Sync /\ Accounted(sync[y]) /\ Pruning(sync[y])
          /\ sync[y].pc = "posted"
      BY DEF PruneInv, TypeOK, Begin
    <3>4. /\ C \subseteq SUBSET sync[y].listed /\ UNION C = sync[y].listed
          /\ \A c, d \in C : c # d => c \cap d = {}
      BY DEF Chunkings, Chunks
    <3>5. C \in SUBSET SUBSET Races
      BY <3>3, <3>4 DEF Sync
    <3>6. s \in Sync
      BY <3>3, <3>5 DEF Sync
    <3>7. /\ s.pc = "insert" /\ s.listed = sync[y].listed
          /\ s.waiting = C /\ s.inserted = sync[y].inserted
          /\ s.succeeded = sync[y].succeeded /\ s.failed = sync[y].failed
          /\ s.stale = sync[y].stale /\ s.slice = sync[y].slice
      BY <3>3 DEF Sync
    <3> HIDE DEF s
    <3>8. Open(s) = C /\ Counted(s) = {} /\ s.inserted = {}
      BY <3>3, <3>7 DEF Accounted, Open, Counted
    <3>9. Accounted(s)
      BY <3>3, <3>4, <3>7, <3>8 DEF Accounted, Counted
    <3>10. Pruning(s)
      BY <3>3, <3>7 DEF Pruning, Missed
    <3> QED BY <3>2, <3>6, <3>9, <3>10, OneCall
  <2> QED BY <2>1, <2>2
<1> QED BY <1>1 DEF PruneInv, TypeOK, Begin, tables

\* A chunk moves from waiting to inserted; its races enter both tables.
LEMMA InsertRaceTablesKeeps ==
  ASSUME PruneInv, NEW y \in Syncs, NEW c, InsertRaceTables(y, c)
  PROVE  PruneInv'
<1> DEFINE s == [sync[y] EXCEPT !.waiting = @ \ {c}, !.inserted = @ \cup {c}]
<1>1. /\ sync[y] \in Sync /\ Accounted(sync[y]) /\ Pruning(sync[y])
      /\ sync[y].pc = "insert" /\ c \in sync[y].waiting /\ c \in SUBSET Races
  BY DEF PruneInv, TypeOK, InsertRaceTables, Sync
<1>2. sync' = [sync EXCEPT ![y] = s]
  BY DEF PruneInv, TypeOK, InsertRaceTables
<1>3. s \in Sync
  BY <1>1 DEF Sync
<1>4. /\ s.pc = "insert" /\ s.listed = sync[y].listed
      /\ s.waiting = sync[y].waiting \ {c}
      /\ s.inserted = sync[y].inserted \cup {c}
      /\ s.succeeded = sync[y].succeeded /\ s.failed = sync[y].failed
      /\ s.stale = sync[y].stale /\ s.slice = sync[y].slice
  BY <1>1 DEF Sync
<1> HIDE DEF s
<1>5. Open(s) = Open(sync[y]) /\ Counted(s) = Counted(sync[y])
  BY <1>1, <1>4 DEF Open, Counted
<1>6. s.waiting \cap s.inserted = {}
  BY <1>1, <1>4 DEF Accounted
<1>7. Accounted(s) /\ Pruning(s)
  BY <1>1, <1>4, <1>5, <1>6 DEF Accounted, Pruning, Missed
<1>8. races' \subseteq Races /\ related' \subseteq Races
  BY <1>1 DEF PruneInv, TypeOK, InsertRaceTables
<1> QED BY <1>2, <1>3, <1>7, <1>8, OneCall
        DEF PruneInv, TypeOK, InsertRaceTables

\* A statement for players moves no race.
LEMMA InsertRacePlayersKeeps ==
  ASSUME PruneInv, NEW y \in Syncs, NEW c, InsertRacePlayers(y, c)
  PROVE  PruneInv'
<1>1. PICK rows \in Slices(PlayersOf(y, c) \ sync[y].written, PlayerChunk) :
         /\ players' = players \cup rows
         /\ sync' = [sync EXCEPT ![y].written = @ \cup rows]
  BY DEF InsertRacePlayers
<1> DEFINE s == [sync[y] EXCEPT !.written = @ \cup rows]
<1>2. rows \subseteq Players
  BY SlicesAreSubsets DEF PlayersOf
<1>3. sync[y] \in Sync /\ Accounted(sync[y]) /\ Pruning(sync[y])
  BY DEF PruneInv, TypeOK
<1>4. sync' = [sync EXCEPT ![y] = s]
  BY <1>1 DEF PruneInv, TypeOK
<1>5. s \in Sync
  BY <1>2, <1>3 DEF Sync
<1>6. /\ s.pc = sync[y].pc /\ s.listed = sync[y].listed
      /\ s.waiting = sync[y].waiting /\ s.inserted = sync[y].inserted
      /\ s.succeeded = sync[y].succeeded /\ s.failed = sync[y].failed
      /\ s.stale = sync[y].stale /\ s.slice = sync[y].slice
  BY <1>3 DEF Sync
<1> HIDE DEF s
<1>7. Accounted(s) /\ Pruning(s)
  BY <1>3, <1>6 DEF Accounted, Open, Counted, Pruning, Missed
<1>8. players' \subseteq Players
  BY <1>1, <1>2 DEF PruneInv, TypeOK
<1> QED BY <1>4, <1>5, <1>7, <1>8, OneCall
        DEF PruneInv, TypeOK, InsertRacePlayers

\* A chunk that has settled is counted, once: its races were in no other.
LEMMA Settling ==
  ASSUME NEW s, NEW t, NEW c \in Open(s), Accounted(s), Pruning(s),
         s.pc = "insert", t.pc = "insert", t.listed = s.listed,
         t.waiting = s.waiting \ {c}, t.inserted = s.inserted \ {c},
         t.stale = s.stale, t.slice = s.slice,
         \/ t.succeeded = s.succeeded \cup c /\ t.failed = s.failed
         \/ t.succeeded = s.succeeded /\ t.failed = s.failed \cup c
  PROVE  Accounted(t) /\ Pruning(t)
<1>1. Open(t) = Open(s) \ {c} /\ Counted(t) = Counted(s) \cup c
  BY DEF Open, Counted
<1>2. /\ \A d \in Open(s) : d # c => d \cap c = {}
      /\ c \subseteq UNION Open(s)
  BY DEF Accounted
<1>3. /\ (UNION Open(t)) \cap c = {}
      /\ UNION Open(s) = (UNION Open(t)) \cup c
  BY <1>1, <1>2
<1>4. /\ (UNION Open(s)) \cap Counted(s) = {}
      /\ s.listed = (UNION Open(s)) \cup Counted(s)
      /\ s.succeeded \cap s.failed = {} /\ s.waiting \cap s.inserted = {}
  BY DEF Accounted
<1>5. c \cap s.succeeded = {} /\ c \cap s.failed = {}
  BY <1>2, <1>4 DEF Counted
<1>6. (UNION Open(t)) \cap Counted(t) = {}
  BY <1>1, <1>3, <1>4
<1>7. t.listed = (UNION Open(t)) \cup Counted(t)
  BY <1>1, <1>3, <1>4
<1>8. t.succeeded \cap t.failed = {}
  BY <1>4, <1>5
<1>9. t.waiting \cap t.inserted = {}
  BY <1>4
<1>10. \A d, e \in Open(t) : d # e => d \cap e = {}
  BY <1>1 DEF Accounted
<1>11. Accounted(t)
  BY <1>6, <1>7, <1>8, <1>9, <1>10 DEF Accounted
<1> QED BY <1>11 DEF Pruning, Missed

\* A chunk ends well.
LEMMA ChunkSucceedsKeeps ==
  ASSUME PruneInv, NEW y \in Syncs, NEW c, ChunkSucceeds(y, c)
  PROVE  PruneInv'
<1> DEFINE s == [sync[y] EXCEPT !.inserted = @ \ {c}, !.succeeded = @ \cup c]
<1>1. /\ sync[y] \in Sync /\ Accounted(sync[y]) /\ Pruning(sync[y])
      /\ sync[y].pc = "insert" /\ c \in sync[y].inserted /\ c \in SUBSET Races
  BY DEF PruneInv, TypeOK, ChunkSucceeds, Sync
<1>2. sync' = [sync EXCEPT ![y] = s]
  BY DEF PruneInv, TypeOK, ChunkSucceeds
<1>3. s \in Sync
  BY <1>1 DEF Sync
<1>4. /\ s.pc = "insert" /\ s.listed = sync[y].listed
      /\ s.waiting = sync[y].waiting
      /\ s.inserted = sync[y].inserted \ {c}
      /\ s.succeeded = sync[y].succeeded \cup c /\ s.failed = sync[y].failed
      /\ s.stale = sync[y].stale /\ s.slice = sync[y].slice
  BY <1>1 DEF Sync
<1> HIDE DEF s
<1>5. c \in Open(sync[y]) /\ s.waiting = sync[y].waiting \ {c}
  BY <1>1, <1>4 DEF Open, Accounted
<1>6. Accounted(s) /\ Pruning(s)
  BY <1>1, <1>4, <1>5, Settling
<1> QED BY <1>2, <1>3, <1>6, OneCall DEF PruneInv, TypeOK, ChunkSucceeds, tables

\* A chunk ends badly.
LEMMA ChunkFailsKeeps ==
  ASSUME PruneInv, NEW y \in Syncs, NEW c, ChunkFails(y, c)
  PROVE  PruneInv'
<1> DEFINE s == [sync[y] EXCEPT !.waiting = @ \ {c}, !.inserted = @ \ {c},
                                !.failed = @ \cup c, !.tainted = TRUE]
<1>1. /\ sync[y] \in Sync /\ Accounted(sync[y]) /\ Pruning(sync[y])
      /\ sync[y].pc = "insert" /\ c \in Open(sync[y]) /\ c \in SUBSET Races
  BY DEF PruneInv, TypeOK, ChunkFails, Open, Sync
<1>2. sync' = [sync EXCEPT ![y] = s]
  BY DEF PruneInv, TypeOK, ChunkFails
<1>3. s \in Sync
  BY <1>1 DEF Sync
<1>4. /\ s.pc = "insert" /\ s.listed = sync[y].listed
      /\ s.waiting = sync[y].waiting \ {c}
      /\ s.inserted = sync[y].inserted \ {c}
      /\ s.succeeded = sync[y].succeeded /\ s.failed = sync[y].failed \cup c
      /\ s.stale = sync[y].stale /\ s.slice = sync[y].slice
  BY <1>1 DEF Sync
<1> HIDE DEF s
<1>5. Accounted(s) /\ Pruning(s)
  BY <1>1, <1>4, Settling
<1>6. troubles' \in Nat
  BY DEF PruneInv, TypeOK, ChunkFails, Trouble
<1> QED BY <1>2, <1>3, <1>5, <1>6, OneCall
        DEF PruneInv, TypeOK, ChunkFails, tables

\* Once all chunks have settled, pruning accounts for nothing new.
LEMMA Accounting ==
  ASSUME NEW s, NEW t, Accounted(s),
         s.pc \notin {"idle", "posted"}, Open(s) = {},
         t.pc \notin {"idle", "posted"}, t.listed = s.listed,
         t.waiting = s.waiting, t.inserted = s.inserted,
         t.succeeded = s.succeeded, t.failed = s.failed
  PROVE  Accounted(t)
BY DEF Accounted, Open, Counted

\* What is stale was missed: what the call was given at a place it has fresh
\* races of, and no failed ones, has all succeeded.
LEMMA StaleIsMissed ==
  ASSUME PruneInv, NEW y \in Syncs, Settled(y), NEW r \in StaleRaces(y)
  PROVE  Missed(sync[y], r)
<1>1. sync[y] \in Sync /\ Accounted(sync[y]) /\ sync[y].pc = "insert"
  BY DEF PruneInv, TypeOK, Settled
<1>2. UNION Open(sync[y]) = {}
  BY DEF Settled, Open
<1>3. sync[y].listed = sync[y].succeeded \cup sync[y].failed
  BY <1>1, <1>2 DEF Accounted, Counted
<1>4. /\ r \notin sync[y].succeeded
      /\ PlaceOf[r] \in PlacesOf(sync[y].succeeded)
      /\ PlaceOf[r] \notin PlacesOf(sync[y].failed)
  BY DEF StaleRaces, FreshPlaces
<1>5. r \notin sync[y].failed
  BY <1>4 DEF PlacesOf
<1>6. PlacesOf(sync[y].succeeded) \subseteq PlacesOf(sync[y].listed)
  BY <1>3 DEF PlacesOf
<1> QED BY <1>3, <1>4, <1>5, <1>6 DEF Missed

\* The stale races are listed once all chunks have settled.
LEMMA FindStaleRacesKeeps ==
  ASSUME PruneInv, NEW y \in Syncs, FindStaleRaces(y)
  PROVE  PruneInv'
<1> DEFINE s == [sync[y] EXCEPT !.pc = "prune", !.stale = StaleRaces(y)]
<1>1. sync[y] \in Sync /\ Accounted(sync[y]) /\ Pruning(sync[y])
  BY DEF PruneInv, TypeOK
<1>2. sync[y].pc = "insert" /\ Open(sync[y]) = {}
  BY DEF FindStaleRaces, Settled, Open
<1>3. StaleRaces(y) \subseteq Races
  BY DEF StaleRaces, PruneInv, TypeOK
<1>4. sync' = [sync EXCEPT ![y] = s]
  BY DEF PruneInv, TypeOK, FindStaleRaces
<1>5. s \in Sync
  BY <1>1, <1>3 DEF Sync
<1>6. /\ s.pc = "prune" /\ s.listed = sync[y].listed
      /\ s.waiting = sync[y].waiting /\ s.inserted = sync[y].inserted
      /\ s.succeeded = sync[y].succeeded /\ s.failed = sync[y].failed
      /\ s.stale = StaleRaces(y) /\ s.slice = sync[y].slice
  BY <1>1 DEF Sync
<1> HIDE DEF s
<1>7. Accounted(s)
  BY <1>1, <1>2, <1>6, Accounting
<1>8. Pruning(s)
  BY <1>1, <1>2, <1>6, StaleIsMissed DEF Pruning, Missed, FindStaleRaces
<1> QED BY <1>3, <1>4, <1>5, <1>7, <1>8, OneCall
        DEF PruneInv, TypeOK, FindStaleRaces, tables

\* The second statement of a slice.
LEMMA DeleteStagesKeeps ==
  ASSUME PruneInv, NEW y \in Syncs, DeleteStages(y)
  PROVE  PruneInv'
<1> DEFINE s == [sync[y] EXCEPT !.pc = "race"]
<1>1. sync[y] \in Sync /\ Accounted(sync[y]) /\ Pruning(sync[y])
  BY DEF PruneInv, TypeOK
<1>2. sync[y].pc = "stage" /\ Open(sync[y]) = {}
  BY <1>1 DEF DeleteStages, Accounted
<1>3. related' \subseteq Races
  BY DEF PruneInv, TypeOK, DeleteStages
<1>4. sync' = [sync EXCEPT ![y] = s]
  BY DEF PruneInv, TypeOK, DeleteStages
<1>5. s \in Sync
  BY <1>1, <1>3 DEF Sync
<1>6. /\ s.pc = "race" /\ s.listed = sync[y].listed
      /\ s.waiting = sync[y].waiting /\ s.inserted = sync[y].inserted
      /\ s.succeeded = sync[y].succeeded /\ s.failed = sync[y].failed
      /\ s.stale = sync[y].stale /\ s.slice = sync[y].slice
  BY <1>1 DEF Sync
<1> HIDE DEF s
<1>7. Accounted(s)
  BY <1>1, <1>2, <1>6, Accounting
<1>8. Pruning(s)
  BY <1>1, <1>2, <1>6 DEF Pruning, Missed
<1> QED BY <1>3, <1>4, <1>5, <1>7, <1>8, OneCall
        DEF PruneInv, TypeOK, DeleteStages

\* The third statement of a slice.
LEMMA DeleteRacesKeeps ==
  ASSUME PruneInv, NEW y \in Syncs, DeleteRaces(y)
  PROVE  PruneInv'
<1> DEFINE s == [sync[y] EXCEPT !.pc = "prune", !.slice = {}, !.stale = @ \ sync[y].slice]
<1>1. sync[y] \in Sync /\ Accounted(sync[y]) /\ Pruning(sync[y])
  BY DEF PruneInv, TypeOK
<1>2. sync[y].pc = "race" /\ Open(sync[y]) = {}
  BY <1>1 DEF DeleteRaces, Accounted
<1>3. races' \subseteq Races
  BY DEF PruneInv, TypeOK, DeleteRaces
<1>4. sync' = [sync EXCEPT ![y] = s]
  BY DEF PruneInv, TypeOK, DeleteRaces
<1>5. s \in Sync
  BY <1>1, <1>3 DEF Sync
<1>6. /\ s.pc = "prune" /\ s.listed = sync[y].listed
      /\ s.waiting = sync[y].waiting /\ s.inserted = sync[y].inserted
      /\ s.succeeded = sync[y].succeeded /\ s.failed = sync[y].failed
      /\ s.stale = sync[y].stale \ sync[y].slice /\ s.slice = {}
  BY <1>1 DEF Sync
<1> HIDE DEF s
<1>7. Accounted(s)
  BY <1>1, <1>2, <1>6, Accounting
<1>8. Pruning(s)
  BY <1>1, <1>2, <1>6 DEF Pruning, Missed
<1> QED BY <1>3, <1>4, <1>5, <1>7, <1>8, OneCall
        DEF PruneInv, TypeOK, DeleteRaces

\* A failed prune leaves nothing to delete.
LEMMA PruneFailsKeeps ==
  ASSUME PruneInv, NEW y \in Syncs, PruneFails(y)
  PROVE  PruneInv'
<1> DEFINE s == [sync[y] EXCEPT !.pc = "prune", !.stale = {}, !.slice = {}, !.tainted = TRUE]
<1>1. sync[y] \in Sync /\ Accounted(sync[y]) /\ Pruning(sync[y])
  BY DEF PruneInv, TypeOK
<1>2. sync[y].pc \notin {"idle", "posted"} /\ Open(sync[y]) = {}
  <2>1. CASE Settled(y)
    BY <2>1 DEF Settled, Open
  <2>2. CASE sync[y].pc \in {"prune", "stage", "race"}
    BY <1>1, <2>2 DEF Accounted
  <2> QED BY <2>1, <2>2 DEF PruneFails
<1>3. troubles' \in Nat
  BY DEF PruneInv, TypeOK, PruneFails, Trouble
<1>4. sync' = [sync EXCEPT ![y] = s]
  BY DEF PruneInv, TypeOK, PruneFails
<1>5. s \in Sync
  BY <1>1, <1>3 DEF Sync
<1>6. /\ s.pc = "prune" /\ s.listed = sync[y].listed
      /\ s.waiting = sync[y].waiting /\ s.inserted = sync[y].inserted
      /\ s.succeeded = sync[y].succeeded /\ s.failed = sync[y].failed
      /\ s.stale = {} /\ s.slice = {}
  BY <1>1 DEF Sync
<1> HIDE DEF s
<1>7. Accounted(s)
  BY <1>1, <1>2, <1>6, Accounting
<1>8. Pruning(s)
  BY <1>1, <1>2, <1>6 DEF Pruning, Missed
<1> QED BY <1>3, <1>4, <1>5, <1>7, <1>8, OneCall
        DEF PruneInv, TypeOK, PruneFails, tables

\* The stale players are listed.
LEMMA FindStalePlayersKeeps ==
  ASSUME PruneInv, NEW y \in Syncs, FindStalePlayers(y)
  PROVE  PruneInv'
<1> DEFINE s == [sync[y] EXCEPT !.pc = "players", !.gone = StalePlayers(y)]
<1>1. sync[y] \in Sync /\ Accounted(sync[y]) /\ Pruning(sync[y])
  BY DEF PruneInv, TypeOK
<1>2. sync[y].pc = "prune" /\ Open(sync[y]) = {}
  BY <1>1 DEF FindStalePlayers, Accounted
<1>3. StalePlayers(y) \subseteq Players
  BY DEF StalePlayers, PruneInv, TypeOK
<1>4. sync' = [sync EXCEPT ![y] = s]
  BY DEF PruneInv, TypeOK, FindStalePlayers
<1>5. s \in Sync
  BY <1>1, <1>3 DEF Sync
<1>6. /\ s.pc = "players" /\ s.listed = sync[y].listed
      /\ s.waiting = sync[y].waiting /\ s.inserted = sync[y].inserted
      /\ s.succeeded = sync[y].succeeded /\ s.failed = sync[y].failed
      /\ s.stale = sync[y].stale /\ s.slice = sync[y].slice
  BY <1>1 DEF Sync
<1> HIDE DEF s
<1>7. Accounted(s)
  BY <1>1, <1>2, <1>6, Accounting
<1>8. Pruning(s)
  BY <1>1, <1>2, <1>6 DEF Pruning, Missed
<1> QED BY <1>3, <1>4, <1>5, <1>7, <1>8, OneCall
        DEF PruneInv, TypeOK, FindStalePlayers, tables

\* A failed prune of players ends.
LEMMA PrunePlayersFailsKeeps ==
  ASSUME PruneInv, NEW y \in Syncs, PrunePlayersFails(y)
  PROVE  PruneInv'
<1> DEFINE s == [sync[y] EXCEPT !.pc = "players", !.gone = {}, !.tainted = TRUE]
<1>1. sync[y] \in Sync /\ Accounted(sync[y]) /\ Pruning(sync[y])
  BY DEF PruneInv, TypeOK
<1>2. sync[y].pc \in {"prune", "players"} /\ Open(sync[y]) = {}
  BY <1>1 DEF PrunePlayersFails, Accounted
<1>3. troubles' \in Nat
  BY DEF PruneInv, TypeOK, PrunePlayersFails, Trouble
<1>4. sync' = [sync EXCEPT ![y] = s]
  BY DEF PruneInv, TypeOK, PrunePlayersFails
<1>5. s \in Sync
  BY <1>1, <1>3 DEF Sync
<1>6. /\ s.pc = "players" /\ s.listed = sync[y].listed
      /\ s.waiting = sync[y].waiting /\ s.inserted = sync[y].inserted
      /\ s.succeeded = sync[y].succeeded /\ s.failed = sync[y].failed
      /\ s.stale = sync[y].stale /\ s.slice = sync[y].slice
  BY <1>1 DEF Sync
<1> HIDE DEF s
<1>7. Accounted(s)
  BY <1>1, <1>2, <1>6, Accounting
<1>8. Pruning(s)
  BY <1>1, <1>2, <1>6 DEF Pruning, Missed
<1> QED BY <1>3, <1>4, <1>5, <1>7, <1>8, OneCall
        DEF PruneInv, TypeOK, PrunePlayersFails, tables

\* The first statement of a slice.
LEMMA DeleteConditionsKeeps ==
  ASSUME PruneInv, NEW y \in Syncs, DeleteConditions(y)
  PROVE  PruneInv'
<1>1. PICK slice \in Slices(sync[y].stale, PruneChunk) :
         /\ related' = related \ (slice \ Mechanical)
         /\ sync' = [sync EXCEPT ![y].pc = "stage", ![y].slice = slice]
  BY DEF DeleteConditions
<1> DEFINE s == [sync[y] EXCEPT !.pc = "stage", !.slice = slice]
<1>2. sync[y] \in Sync /\ Accounted(sync[y]) /\ Pruning(sync[y])
  BY DEF PruneInv, TypeOK
<1>3. slice \subseteq sync[y].stale
  BY SlicesAreSubsets
<1>4. sync' = [sync EXCEPT ![y] = s]
  BY <1>1 DEF PruneInv, TypeOK
<1>5. s \in Sync
  BY <1>2, <1>3 DEF Sync
<1>6. /\ s.pc = "stage" /\ s.listed = sync[y].listed
      /\ s.waiting = sync[y].waiting /\ s.inserted = sync[y].inserted
      /\ s.succeeded = sync[y].succeeded /\ s.failed = sync[y].failed
      /\ s.stale = sync[y].stale /\ s.slice = slice
  BY <1>2 DEF Sync
<1> HIDE DEF s
<1>7. sync[y].pc = "prune" /\ Open(sync[y]) = {}
  BY <1>2 DEF DeleteConditions, Accounted
<1>8. Accounted(s)
  BY <1>2, <1>6, <1>7, Accounting
<1>9. Pruning(s)
  BY <1>2, <1>3, <1>6 DEF Pruning, Missed
<1>10. related' \subseteq Races
  BY <1>1 DEF PruneInv, TypeOK
<1> QED BY <1>4, <1>5, <1>8, <1>9, <1>10, OneCall
        DEF PruneInv, TypeOK, DeleteConditions

\* A statement that deletes players touches no race.
LEMMA DeleteRacePlayersKeeps ==
  ASSUME PruneInv, NEW y \in Syncs, DeleteRacePlayers(y)
  PROVE  PruneInv'
<1>1. PICK rows \in Slices(sync[y].gone, PruneChunk) :
         /\ players' = players \ rows
         /\ sync' = [sync EXCEPT ![y].gone = @ \ rows]
  BY DEF DeleteRacePlayers
<1> DEFINE s == [sync[y] EXCEPT !.gone = @ \ rows]
<1>2. sync[y] \in Sync /\ Accounted(sync[y]) /\ Pruning(sync[y])
  BY DEF PruneInv, TypeOK
<1>3. sync' = [sync EXCEPT ![y] = s]
  BY <1>1 DEF PruneInv, TypeOK
<1>4. s \in Sync
  BY <1>2 DEF Sync
<1>5. /\ s.pc = sync[y].pc /\ s.listed = sync[y].listed
      /\ s.waiting = sync[y].waiting /\ s.inserted = sync[y].inserted
      /\ s.succeeded = sync[y].succeeded /\ s.failed = sync[y].failed
      /\ s.stale = sync[y].stale /\ s.slice = sync[y].slice
  BY <1>2 DEF Sync
<1> HIDE DEF s
<1>6. Accounted(s) /\ Pruning(s)
  BY <1>2, <1>5 DEF Accounted, Open, Counted, Pruning, Missed
<1>7. players' \subseteq Players
  BY <1>1 DEF PruneInv, TypeOK
<1> QED BY <1>3, <1>4, <1>6, <1>7, OneCall
        DEF PruneInv, TypeOK, DeleteRacePlayers

\* A call that returns or dies leaves a blank record.
LEMMA EndKeeps ==
  ASSUME PruneInv, NEW y \in Syncs, Return(y) \/ Crash(y)
  PROVE  PruneInv'
<1>1. sync' = [sync EXCEPT ![y] = Idle]
  BY DEF Return, Crash
<1>2. troubles' \in Nat
  BY DEF Return, Crash, Trouble, PruneInv, TypeOK
<1> QED BY <1>1, <1>2, IdleType, OneCall
        DEF PruneInv, TypeOK, Return, Crash, tables

\* The invariant holds at the start and is kept by every step.
LEMMA PruneInvInit == Init => PruneInv
<1> SUFFICES ASSUME Init PROVE PruneInv
  OBVIOUS
<1>1. sync \in [Syncs -> Sync] /\ \A y \in Syncs : sync[y] = Idle
  BY IdleType DEF Init
<1>2. site \in Programme
  BY ConstantsAssumption DEF Init
<1> QED BY <1>1, <1>2, IdleType DEF Init, PruneInv, TypeOK

LEMMA PruneInvNext == PruneInv /\ [Next]_vars => PruneInv'
<1> SUFFICES ASSUME PruneInv, [Next]_vars PROVE PruneInv'
  OBVIOUS
<1>1. CASE ChangeSite
  BY <1>1, SiteChanges
<1>2. ASSUME NEW y \in Syncs, NEW P \in SUBSET Places, Scrape(y, P)
      PROVE  PruneInv'
  BY <1>2, ScrapeKeeps
<1>3. ASSUME NEW y \in Syncs, Proceed(y)
      PROVE  PruneInv'
  BY <1>3, BeginKeeps, InsertRaceTablesKeeps, InsertRacePlayersKeeps,
     ChunkSucceedsKeeps, FindStaleRacesKeeps, DeleteConditionsKeeps,
     DeleteStagesKeeps, DeleteRacesKeeps, FindStalePlayersKeeps,
     DeleteRacePlayersKeeps, EndKeeps DEF Proceed
<1>4. ASSUME NEW y \in Syncs, Fail(y)
      PROVE  PruneInv'
  BY <1>4, ChunkFailsKeeps, PruneFailsKeeps, PrunePlayersFailsKeeps, EndKeeps
     DEF Fail
<1>5. CASE UNCHANGED vars
  BY <1>5 DEF vars, tables, PruneInv, TypeOK
<1> QED BY <1>1, <1>2, <1>3, <1>4, <1>5 DEF Next

LEMMA PruneInvHolds == Spec => []PruneInv
BY PruneInvInit, PruneInvNext, PTL DEF Spec

\* The tables and the calls keep their types, and upsert counts every race it
\* was given exactly once, for any races, slices and calls.
THEOREM TypeCorrect == Spec => []TypeOK
<1>1. PruneInv => TypeOK
  BY DEF PruneInv
<1> QED BY <1>1, PruneInvHolds, PTL

\* Only the three deleting statements remove a row of race, race_stage or
\* race_condition, and only of the races in the call's slice.
LEMMA LostRowsWereInSlice ==
  ASSUME PruneInv, [Next]_vars,
         NEW r \in (races \ races') \cup (related \ related')
  PROVE  \E y \in Syncs : r \in sync[y].stale
<1>1. PICK y \in Syncs :
         DeleteConditions(y) \/ DeleteStages(y) \/ DeleteRaces(y)
  <2>1. ASSUME NEW y \in Syncs, Proceed(y)
        PROVE  DeleteConditions(y) \/ DeleteStages(y) \/ DeleteRaces(y)
    <3>1. CASE Begin(y) \/ FindStaleRaces(y) \/ FindStalePlayers(y) \/ Return(y)
      BY <3>1 DEF Begin, FindStaleRaces, FindStalePlayers, Return, tables
    <3>2. CASE \E c \in sync[y].waiting : InsertRaceTables(y, c)
      BY <3>2 DEF InsertRaceTables
    <3>3. CASE \E c \in sync[y].inserted :
                  InsertRacePlayers(y, c) \/ ChunkSucceeds(y, c)
      BY <3>3 DEF InsertRacePlayers, ChunkSucceeds, tables
    <3>4. CASE DeleteRacePlayers(y)
      BY <3>4 DEF DeleteRacePlayers
    <3> QED BY <2>1, <3>1, <3>2, <3>3, <3>4 DEF Proceed
  <2>2. ASSUME NEW y \in Syncs, Fail(y)
        PROVE  FALSE
    BY <2>2 DEF Fail, ChunkFails, PruneFails, PrunePlayersFails, Crash, tables
  <2>3. CASE ChangeSite
    BY <2>3 DEF ChangeSite, tables
  <2>4. ASSUME NEW y \in Syncs, NEW P, Scrape(y, P)
        PROVE  FALSE
    BY <2>4 DEF Scrape, tables
  <2>5. CASE UNCHANGED vars
    BY <2>5 DEF vars, tables
  <2> QED BY <2>1, <2>2, <2>3, <2>4, <2>5 DEF Next
<1>2. Pruning(sync[y])
  BY DEF PruneInv
<1>3. CASE DeleteConditions(y)
  <2>1. PICK slice \in Slices(sync[y].stale, PruneChunk) :
           related' = related \ (slice \ Mechanical)
    BY <1>3 DEF DeleteConditions
  <2>2. slice \subseteq sync[y].stale /\ races' = races
    BY <1>3, SlicesAreSubsets DEF DeleteConditions
  <2> QED BY <2>1, <2>2
<1>4. CASE DeleteStages(y)
  BY <1>2, <1>4 DEF DeleteStages, Pruning
<1>5. CASE DeleteRaces(y)
  BY <1>2, <1>5 DEF DeleteRaces, Pruning
<1> QED BY <1>1, <1>3, <1>4, <1>5

\* No row is pruned but for a call that was given the programme of its place
\* without it, whatever fails and whatever overlaps: failed chunks, chunks of
\* other places and later insertions never make a row stale.
THEOREM PrunesJustified == Spec => PrunesOnlyMissed
<1>1. PruneInv /\ [Next]_vars =>
        [\A r \in (races \ races') \cup (related \ related') :
            \E y \in Syncs : Missed(sync[y], r)]_vars
  <2> SUFFICES ASSUME PruneInv, [Next]_vars,
                      NEW r \in (races \ races') \cup (related \ related')
               PROVE  \E y \in Syncs : Missed(sync[y], r)
    OBVIOUS
  <2>1. PICK y \in Syncs : r \in sync[y].stale
    BY LostRowsWereInSlice
  <2> QED BY <2>1 DEF PruneInv, Pruning
<1> QED BY <1>1, PruneInvHolds, PTL DEF Spec, PrunesOnlyMissed

\* A step without trouble that is not one of the three statements leaves every
\* race with its companion row and every slice as it was.
LEMMA HalvesStay ==
  ASSUME HalvesArePruned, races \ related = races' \ related',
         troubles' = troubles,
         \A y \in Syncs : sync[y].slice \subseteq sync'[y].slice
  PROVE  HalvesArePruned'
BY DEF HalvesArePruned

LEMMA HalvesNext ==
  ASSUME PruneInv, HalvesArePruned, [Next]_vars
  PROVE  HalvesArePruned'
<1>1. sync \in [Syncs -> Sync] /\ \A y \in Syncs : Pruning(sync[y])
  BY DEF PruneInv, TypeOK
<1>2. CASE ChangeSite \/ UNCHANGED vars
  BY <1>2 DEF ChangeSite, HalvesArePruned, vars, tables
<1>3. ASSUME NEW y \in Syncs, NEW P, Scrape(y, P)
      PROVE  HalvesArePruned'
  <2>1. \A z \in Syncs : sync[z].slice \subseteq sync'[z].slice
    <3>1. sync[y].slice = {}
      BY <1>1, <1>3 DEF Pruning, Scrape, Active
    <3>2. ASSUME NEW z \in Syncs, z # y
          PROVE  sync'[z] = [sync[z] EXCEPT !.tainted = Active(z)]
      BY <1>3, <3>2 DEF Scrape
    <3>3. ASSUME NEW z \in Syncs, z # y
          PROVE  sync'[z].slice = sync[z].slice
      <4>1. sync[z] \in Sync
        BY <1>1
      <4> QED BY <4>1, <3>2, <3>3 DEF Sync
    <3> QED BY <3>1, <3>3
  <2> QED BY <1>3, <2>1, HalvesStay DEF Scrape, tables
<1>4. ASSUME NEW y \in Syncs, Fail(y)
      PROVE  HalvesArePruned'
  <2>1. troubles \in Nat /\ troubles' = troubles + 1
    BY <1>4 DEF PruneInv, TypeOK, Fail, ChunkFails, PruneFails,
                PrunePlayersFails, Crash, Trouble
  <2> QED BY <2>1 DEF HalvesArePruned
<1>5. ASSUME NEW y \in Syncs, Proceed(y)
      PROVE  HalvesArePruned'
  <2>0. sync[y] \in Sync /\ Pruning(sync[y])
    BY <1>1
  <2>1. CASE Begin(y) \/ Return(y)
    <3>1. sync[y].slice = {} /\ \A z \in Syncs : z # y => sync'[z] = sync[z]
      BY <2>0, <2>1, <1>1 DEF Pruning, Begin, Return
    <3>2. \A z \in Syncs : sync[z].slice \subseteq sync'[z].slice
      BY <3>1
    <3> QED BY <2>1, <3>2, HalvesStay DEF Begin, Return, tables
  <2>2. ASSUME NEW c, InsertRaceTables(y, c)
        PROVE  HalvesArePruned'
    <3>1. /\ races' \ related' \subseteq races \ related
          /\ troubles' = troubles
      BY <2>2 DEF InsertRaceTables
    <3>2. \A z \in Syncs : sync'[z].slice = sync[z].slice
      BY <1>1, <2>0, <2>2 DEF InsertRaceTables, Sync
    <3> QED BY <3>1, <3>2 DEF HalvesArePruned
  <2>3. ASSUME NEW c, InsertRacePlayers(y, c) \/ ChunkSucceeds(y, c)
        PROVE  HalvesArePruned'
    <3>1. CASE InsertRacePlayers(y, c)
      <4>1. \A z \in Syncs : sync'[z].slice = sync[z].slice
        BY <1>1, <2>0, <3>1 DEF InsertRacePlayers, Sync
      <4> QED BY <3>1, <4>1, HalvesStay DEF InsertRacePlayers
    <3>2. CASE ChunkSucceeds(y, c)
      <4>1. \A z \in Syncs : sync'[z].slice = sync[z].slice
        BY <1>1, <2>0, <3>2 DEF ChunkSucceeds, Sync
      <4> QED BY <3>2, <4>1, HalvesStay DEF ChunkSucceeds, tables
    <3> QED BY <2>3, <3>1, <3>2
  <2>4. CASE FindStaleRaces(y) \/ FindStalePlayers(y) \/ DeleteRacePlayers(y)
    <3>1. \A z \in Syncs : sync'[z].slice = sync[z].slice
      BY <1>1, <2>0, <2>4
         DEF FindStaleRaces, FindStalePlayers, DeleteRacePlayers, Sync
    <3> QED BY <2>4, <3>1, HalvesStay
            DEF FindStaleRaces, FindStalePlayers, DeleteRacePlayers, tables
  <2>5. CASE DeleteConditions(y)
    <3>1. PICK slice \in Slices(sync[y].stale, PruneChunk) :
             /\ related' = related \ (slice \ Mechanical)
             /\ sync' = [sync EXCEPT ![y].pc = "stage", ![y].slice = slice]
      BY <2>5 DEF DeleteConditions
    <3>2. /\ sync'[y].slice = slice
          /\ \A z \in Syncs : z # y => sync'[z].slice = sync[z].slice
      BY <1>1, <2>0, <3>1 DEF Sync
    <3>3. sync[y].slice = {} /\ races' = races /\ troubles' = troubles
      BY <2>0, <2>5 DEF DeleteConditions, Pruning
    <3>4. races' \ related' \subseteq (races \ related) \cup slice
      BY <3>1, <3>3
    <3> QED BY <3>2, <3>3, <3>4 DEF HalvesArePruned
  <2>6. CASE DeleteStages(y)
    <3>1. \A z \in Syncs : sync'[z].slice = sync[z].slice
      BY <1>1, <2>0, <2>6 DEF DeleteStages, Sync
    <3>2. /\ races' \ related' \subseteq (races \ related) \cup sync[y].slice
          /\ troubles' = troubles
      BY <2>6 DEF DeleteStages
    <3> QED BY <3>1, <3>2 DEF HalvesArePruned
  <2>7. CASE DeleteRaces(y)
    <3>1. \A z \in Syncs : z # y => sync'[z].slice = sync[z].slice
      BY <1>1, <2>7 DEF DeleteRaces
    <3>2. /\ races' \ related' = (races \ related) \ sync[y].slice
          /\ troubles' = troubles
      BY <2>7 DEF DeleteRaces
    <3> QED BY <3>1, <3>2 DEF HalvesArePruned
  <2> QED BY <1>5, <2>1, <2>2, <2>3, <2>4, <2>5, <2>6, <2>7 DEF Proceed
<1> QED BY <1>2, <1>3, <1>4, <1>5 DEF Next

\* Insertion in one batch and pruning companion first: unless something failed,
\* a race lacks its stage or condition only while it is being pruned, for any
\* number of overlapping calls.
THEOREM HalvesHold == Spec => []HalvesArePruned
<1>1. Init => HalvesArePruned
  BY DEF Init, HalvesArePruned
<1>2. PruneInv /\ HalvesArePruned /\ [Next]_vars => HalvesArePruned'
  BY HalvesNext
<1> QED BY <1>1, <1>2, PruneInvHolds, PTL DEF Spec

-----------------------------------------------------------------------------
(* What an undisturbed call leaves behind.  A call that is not tainted is    *)
(* alone, so the tables of its places change by its own statements only:     *)
(* what it wrote stays, and what it has not brought is among what it is      *)
(* about to delete.                                                          *)

Alone(y) == \A z \in Syncs \ {y} : ~Active(z)

\* What the call s wrote is in the tables.
Wrote(s) ==
    /\ s.failed = {}
    /\ s.succeeded \subseteq races \cap related
    /\ \A c \in s.inserted : c \subseteq races \cap related
    /\ s.pc \in {"posted", "insert"} => s.written \subseteq players
    /\ \A p \in Players :
           p[1] \in s.succeeded /\ p[2] \in s.cars[p[1]] => p \in players

\* What the tables have at its places beyond its list is on its way out.
Clears(s) ==
    /\ s.pc \in {"prune", "stage", "race", "players"} =>
           \A r \in races \ OffDay :
               PlaceOf[r] \in PlacesOf(s.listed) => r \in s.listed \cup s.stale
    /\ s.pc = "players" =>
           /\ s.stale = {}
           /\ s.gone = {p \in players : /\ p[1] \in s.succeeded
                                        /\ s.cars[p[1]] # {}
                                        /\ p[2] \notin s.cars[p[1]]}

Undisturbed(y) == Active(y) /\ ~sync[y].tainted
Clean(y) == Undisturbed(y) => Alone(y) /\ Wrote(sync[y]) /\ Clears(sync[y])

\* Deleting what an undisturbed call missed takes nothing that it wrote.
LEMMA ListedSurvive ==
  ASSUME PruneInv, NEW y \in Syncs, sync[y].pc \notin {"idle", "posted", "insert"}
  PROVE  /\ sync[y].succeeded \cup sync[y].failed = sync[y].listed
         /\ sync[y].slice \cap sync[y].listed = {}
         /\ sync[y].stale \cap sync[y].listed = {}
         /\ sync[y].slice \subseteq sync[y].stale
         /\ sync[y].inserted = {}
<1>1. Accounted(sync[y]) /\ Pruning(sync[y]) /\ sync[y] \in Sync
  BY DEF PruneInv, TypeOK
<1>2. Open(sync[y]) = {} /\ sync[y].inserted = {}
  BY <1>1 DEF Accounted, Open
<1>3. sync[y].succeeded \cup sync[y].failed = sync[y].listed
  BY <1>1, <1>2 DEF Accounted, Counted
<1>. QED  BY <1>1, <1>2, <1>3 DEF Pruning, Missed

\* A call that is alone goes on.
LEMMA UndisturbedProceeds ==
  ASSUME PruneInv, NEW y \in Syncs, Undisturbed(y), Clean(y), Proceed(y),
         Undisturbed(y)'
  PROVE  Clean(y)'
<1>. DEFINE s == sync[y]
            t == sync'[y]
<1>0. /\ s \in Sync /\ Accounted(s) /\ Pruning(s)
      /\ sync \in [Syncs -> Sync]
      /\ Alone(y) /\ Wrote(s) /\ Clears(s)
  BY DEF PruneInv, TypeOK, Clean
<1>1. Alone(y)'
  <2>1. \A z \in Syncs : z # y => sync'[z] = sync[z]
    BY <1>0 DEF Proceed, Begin, InsertRaceTables, InsertRacePlayers, ChunkSucceeds,
       FindStaleRaces, DeleteConditions, DeleteStages, DeleteRaces,
       FindStalePlayers, DeleteRacePlayers, Return
  <2>. QED  BY <1>0, <2>1 DEF Alone, Active
<1>2. SUFFICES (Wrote(sync[y]) /\ Clears(sync[y]))'
  BY <1>1 DEF Clean
<1>3. ASSUME t.pc = "insert", t.cars = s.cars, t.failed = s.failed
      PROVE  Clears(sync[y])'
  BY <1>3 DEF Clears
<1>4. CASE Begin(y)
  <2>1. /\ s.pc = "posted" /\ t.pc = "insert" /\ t.cars = s.cars /\ t.failed = s.failed
        /\ t.succeeded = s.succeeded /\ t.inserted = s.inserted
        /\ t.written = s.written /\ UNCHANGED tables
    <3>1. t # Idle
      BY DEF Undisturbed, Active, Idle
    <3>2. PICK C : sync' = [sync EXCEPT ![y].pc = "insert", ![y].waiting = C]
      BY <1>0, <1>4, <3>1 DEF Begin
    <3>3. s.pc = "posted" /\ UNCHANGED tables
      BY <1>4 DEF Begin
    <3>. QED  BY <1>0, <3>2, <3>3 DEF Sync
  <2>. QED  BY <1>0, <1>3, <2>1 DEF Wrote, tables
<1>5. ASSUME NEW c \in s.waiting, InsertRaceTables(y, c)
      PROVE  (Wrote(sync[y]) /\ Clears(sync[y]))'
  <2>1. /\ s.pc = "insert" /\ t.pc = "insert" /\ t.cars = s.cars /\ t.failed = s.failed
        /\ t.succeeded = s.succeeded /\ t.inserted = s.inserted \cup {c}
        /\ t.written = s.written
        /\ races' = races \cup c /\ related' = related \cup c /\ players' = players
    BY <1>0, <1>5 DEF InsertRaceTables, Sync
  <2>. QED  BY <1>0, <1>3, <2>1 DEF Wrote
<1>6. ASSUME NEW c \in s.inserted, InsertRacePlayers(y, c)
      PROVE  (Wrote(sync[y]) /\ Clears(sync[y]))'
  <2>1. PICK rows \in Slices(PlayersOf(y, c) \ s.written, PlayerChunk) :
          /\ players' = players \cup rows
          /\ sync' = [sync EXCEPT ![y].written = @ \cup rows]
    BY <1>6 DEF InsertRacePlayers
  <2>2. /\ s.pc = "insert" /\ t.pc = "insert" /\ t.cars = s.cars /\ t.failed = s.failed
        /\ t.succeeded = s.succeeded /\ t.inserted = s.inserted
        /\ t.written = s.written \cup rows
        /\ races' = races /\ related' = related
    BY <1>0, <1>6, <2>1 DEF InsertRacePlayers, Sync
  <2>. QED  BY <1>0, <1>3, <2>1, <2>2 DEF Wrote
<1>7. ASSUME NEW c \in s.inserted, ChunkSucceeds(y, c)
      PROVE  (Wrote(sync[y]) /\ Clears(sync[y]))'
  <2>1. /\ s.pc = "insert" /\ t.pc = "insert" /\ t.cars = s.cars /\ t.failed = s.failed
        /\ t.succeeded = s.succeeded \cup c /\ t.inserted = s.inserted \ {c}
        /\ t.written = s.written /\ UNCHANGED tables
        /\ PlayersOf(y, c) \subseteq s.written
    BY <1>0, <1>7 DEF ChunkSucceeds, Sync
  <2>2. \A p \in Players :
            p[1] \in s.succeeded \cup c /\ p[2] \in s.cars[p[1]] => p \in players
    BY <1>0, <2>1 DEF Wrote, PlayersOf
  <2>. QED  BY <1>0, <1>3, <2>1, <2>2 DEF Wrote, tables
<1>8. CASE FindStaleRaces(y)
  <2>1. /\ t.pc = "prune" /\ t.cars = s.cars /\ t.failed = s.failed
        /\ t.succeeded = s.succeeded /\ t.inserted = s.inserted
        /\ t.written = s.written /\ t.listed = s.listed
        /\ t.stale = StaleRaces(y) /\ UNCHANGED tables
    BY <1>0, <1>8 DEF FindStaleRaces, Sync
  <2>2. s.succeeded = s.listed
    <3>1. s.pc = "insert" /\ UNION Open(s) = {}
      BY <1>8 DEF FindStaleRaces, Settled, Open
    <3>2. s.listed = s.succeeded \cup s.failed
      BY <1>0, <3>1 DEF Accounted, Counted
    <3>. QED  BY <1>0, <3>2 DEF Wrote
  <2>3. \A r \in races \ OffDay :
            PlaceOf[r] \in PlacesOf(s.listed) => r \in s.listed \cup StaleRaces(y)
    <3>1. FreshPlaces(y) = PlacesOf(s.listed)
      BY <1>0, <2>2 DEF FreshPlaces, Wrote, PlacesOf
    <3>. QED  BY <2>2, <3>1, Zenon DEF StaleRaces
  <2>. QED  BY <1>0, <2>1, <2>3 DEF Wrote, Clears, tables
<1>9. CASE DeleteConditions(y) \/ DeleteStages(y)
  <2>1. /\ t.pc \in {"stage", "race"} /\ t.cars = s.cars /\ t.failed = s.failed
        /\ t.succeeded = s.succeeded /\ t.inserted = s.inserted
        /\ t.written = s.written /\ t.listed = s.listed /\ t.stale = s.stale
        /\ s.pc \in {"prune", "stage"}
    BY <1>0, <1>9 DEF DeleteConditions, DeleteStages, Sync
  <2>2. races' = races /\ players' = players
    BY <1>9 DEF DeleteConditions, DeleteStages
  <2>3. \A r \in s.listed : r \in related => r \in related'
    <3>1. s.stale \cap s.listed = {} /\ s.slice \cap s.listed = {}
      BY <2>1, ListedSurvive
    <3>2. CASE DeleteConditions(y)
      BY <3>1, <3>2, SlicesAreSubsets DEF DeleteConditions
    <3>3. CASE DeleteStages(y)
      BY <3>1, <3>3 DEF DeleteStages
    <3>. QED  BY <1>9, <3>2, <3>3
  <2>4. s.succeeded \subseteq s.listed /\ s.inserted = {}
    BY <2>1, ListedSurvive
  <2>. QED  BY <1>0, <2>1, <2>2, <2>3, <2>4 DEF Wrote, Clears
<1>10. CASE DeleteRaces(y)
  <2>1. /\ t.pc = "prune" /\ t.cars = s.cars /\ t.failed = s.failed
        /\ t.succeeded = s.succeeded /\ t.inserted = s.inserted
        /\ t.written = s.written /\ t.listed = s.listed
        /\ t.stale = s.stale \ s.slice /\ s.pc = "race"
        /\ races' = races \ s.slice /\ related' = related /\ players' = players
    BY <1>0, <1>10 DEF DeleteRaces, Sync
  <2>2. s.succeeded \subseteq s.listed /\ s.inserted = {} /\ s.slice \cap s.listed = {}
    BY <2>1, ListedSurvive
  <2>. QED  BY <1>0, <2>1, <2>2 DEF Wrote, Clears
<1>11. CASE FindStalePlayers(y)
  <2>1. /\ t.pc = "players" /\ t.cars = s.cars /\ t.failed = s.failed
        /\ t.succeeded = s.succeeded /\ t.inserted = s.inserted
        /\ t.written = s.written /\ t.listed = s.listed
        /\ t.stale = s.stale /\ s.pc = "prune" /\ s.stale = {}
        /\ t.gone = StalePlayers(y) /\ UNCHANGED tables
    BY <1>0, <1>11 DEF FindStalePlayers, Sync
  <2>. QED  BY <1>0, <2>1 DEF Wrote, Clears, StalePlayers, tables
<1>12. CASE DeleteRacePlayers(y)
  <2>1. PICK rows \in Slices(s.gone, PruneChunk) :
          /\ players' = players \ rows
          /\ sync' = [sync EXCEPT ![y].gone = @ \ rows]
    BY <1>12 DEF DeleteRacePlayers
  <2>2. /\ t.pc = "players" /\ t.cars = s.cars /\ t.failed = s.failed
        /\ t.succeeded = s.succeeded /\ t.inserted = s.inserted
        /\ t.written = s.written /\ t.listed = s.listed
        /\ t.stale = s.stale /\ s.pc = "players"
        /\ t.gone = s.gone \ rows /\ races' = races /\ related' = related
    BY <1>0, <1>12, <2>1 DEF DeleteRacePlayers, Sync
  <2>3. rows \subseteq s.gone
    BY <2>1, SlicesAreSubsets
  <2>4. Wrote(sync[y])'
    <3>1. s.inserted = {}
      BY <2>2, ListedSurvive
    <3>2. \A p \in s.gone : ~(p[1] \in s.succeeded /\ p[2] \in s.cars[p[1]])
      BY <1>0, <2>2 DEF Clears
    <3>. QED  BY <1>0, <2>1, <2>2, <2>3, <3>1, <3>2 DEF Wrote
  <2>5. Clears(sync[y])'
    BY <1>0, <2>1, <2>2, <2>3 DEF Clears
  <2>. QED  BY <2>4, <2>5
<1>13. CASE Return(y)
  BY <1>0, <1>13 DEF Return, Undisturbed, Active, Idle
<1>. QED
  BY <1>4, <1>5, <1>6, <1>7, <1>8, <1>9, <1>10, <1>11, <1>12, <1>13 DEF Proceed

\* Every step: a failure taints its call, and a scrape all the others.
LEMMA CleanNext ==
  ASSUME PruneInv, \A y \in Syncs : Clean(y), [Next]_vars, NEW y \in Syncs
  PROVE  Clean(y)'
<1>0. sync \in [Syncs -> Sync] /\ Clean(y)
  BY DEF PruneInv, TypeOK
<1>. SUFFICES ASSUME Undisturbed(y)' PROVE Clean(y)'
  BY DEF Clean
<1>1. CASE ChangeSite \/ UNCHANGED vars
  <2>1. UNCHANGED <<sync, races, related, players>>
    BY <1>1 DEF ChangeSite, vars, tables
  <2>2. Undisturbed(y)
    BY <2>1 DEF Undisturbed, Active
  <2>. QED  BY <1>0, <2>1, <2>2 DEF Clean, Alone, Active, Wrote, Clears
<1>2. ASSUME NEW z \in Syncs, NEW P \in SUBSET Places, Scrape(z, P)
      PROVE  Clean(y)'
  <2>1. CASE z = y
    <3>. DEFINE R == {r \in site.listed : PlaceOf[r] \in P}
                overlap == \E u \in Syncs : Active(u)
    <3>1. /\ sync'[y] = [Idle EXCEPT !.pc = "posted", !.listed = R,
                                     !.cars = site.cars, !.tainted = overlap]
          /\ \A u \in Syncs : u # y =>
                 sync'[u] = [sync[u] EXCEPT !.tainted = Active(u)]
          /\ UNCHANGED tables
      BY <1>2, <2>1 DEF Scrape
    <3>. HIDE DEF R, overlap
    <3>2. /\ sync'[y].pc = "posted"
          /\ sync'[y].failed = {} /\ sync'[y].succeeded = {}
          /\ sync'[y].inserted = {} /\ sync'[y].written = {}
      BY <3>1, SMT DEF Idle
    <3>3. \A u \in Syncs : ~Active(u)
      <4>1. sync'[y].tainted = overlap
        BY <3>1, Zenon DEF Idle
      <4>2. ~overlap
        BY <4>1, Zenon DEF Undisturbed
      <4>. QED  BY <4>2 DEF overlap
    <3>4. ASSUME NEW u \in Syncs, u # y PROVE sync'[u].pc = sync[u].pc
      <4>1. sync'[u] = [sync[u] EXCEPT !.tainted = Active(u)]
        BY <3>1, <3>4
      <4>. QED  BY <1>0, <4>1 DEF Sync
    <3>5. Alone(y)'
      BY <3>3, <3>4 DEF Alone, Active
    <3>6. (Wrote(sync[y]) /\ Clears(sync[y]))'
      BY <3>2 DEF Wrote, Clears
    <3>. QED  BY <3>5, <3>6 DEF Clean
  <2>2. CASE z # y
    <3>1. sync'[y] = [sync[y] EXCEPT !.tainted = Active(y)]
      BY <1>2, <2>2 DEF Scrape
    <3>2. sync'[y].tainted = Active(y) /\ sync'[y].pc = sync[y].pc
      BY <1>0, <3>1 DEF Sync
    <3>. QED  BY <3>2 DEF Undisturbed, Active
  <2>. QED  BY <2>1, <2>2
<1>3. ASSUME NEW z \in Syncs, z # y, Proceed(z) \/ Fail(z)
      PROVE  Clean(y)'
  <2>1. Active(z)
    BY <1>3 DEF Proceed, Begin, InsertRaceTables, InsertRacePlayers, ChunkSucceeds,
       FindStaleRaces, Settled, DeleteConditions, DeleteStages, DeleteRaces,
       FindStalePlayers, DeleteRacePlayers, Return, Fail, ChunkFails, PruneFails,
       PrunePlayersFails, Crash, Active
  <2>2. sync'[y] = sync[y]
    BY <1>0, <1>3 DEF Proceed, Begin, InsertRaceTables, InsertRacePlayers,
       ChunkSucceeds, FindStaleRaces, DeleteConditions, DeleteStages, DeleteRaces,
       FindStalePlayers, DeleteRacePlayers, Return, Fail, ChunkFails, PruneFails,
       PrunePlayersFails, Crash
  <2>. QED  BY <1>0, <1>3, <2>1, <2>2 DEF Undisturbed, Active, Clean, Alone
<1>4. CASE Proceed(y)
  <2>1. sync'[y].tainted = sync[y].tainted \/ sync'[y] = Idle
    <3>1. CASE Begin(y) \/ Return(y)
      BY <1>0, <3>1 DEF Begin, Return, Sync
    <3>2. CASE \E c \in sync[y].waiting : InsertRaceTables(y, c)
      BY <1>0, <3>2 DEF InsertRaceTables, Sync
    <3>3. CASE \E c \in sync[y].inserted : InsertRacePlayers(y, c)
      BY <1>0, <3>3 DEF InsertRacePlayers, Sync
    <3>4. CASE \E c \in sync[y].inserted : ChunkSucceeds(y, c)
      BY <1>0, <3>4 DEF ChunkSucceeds, Sync
    <3>5. CASE FindStaleRaces(y) \/ FindStalePlayers(y)
      BY <1>0, <3>5 DEF FindStaleRaces, FindStalePlayers, Sync
    <3>6. CASE DeleteConditions(y) \/ DeleteStages(y) \/ DeleteRaces(y)
      BY <1>0, <3>6 DEF DeleteConditions, DeleteStages, DeleteRaces, Sync
    <3>7. CASE DeleteRacePlayers(y)
      BY <1>0, <3>7 DEF DeleteRacePlayers, Sync
    <3>. QED
      BY <1>4, <3>1, <3>2, <3>3, <3>4, <3>5, <3>6, <3>7 DEF Proceed
  <2>2. Active(y)
    BY <1>4 DEF Proceed, Begin, InsertRaceTables, InsertRacePlayers, ChunkSucceeds,
       FindStaleRaces, Settled, DeleteConditions, DeleteStages, DeleteRaces,
       FindStalePlayers, DeleteRacePlayers, Return, Active
  <2>3. Undisturbed(y)
    BY <2>1, <2>2 DEF Undisturbed, Active, Idle
  <2>. QED  BY <1>0, <1>4, <2>3, UndisturbedProceeds
<1>5. CASE Fail(y)
  <2>1. sync'[y].tainted \/ sync'[y].pc = "idle"
    <3>1. CASE \E c \in sync[y].waiting \cup sync[y].inserted : ChunkFails(y, c)
      BY <1>0, <3>1 DEF ChunkFails, Sync
    <3>2. CASE PruneFails(y)
      BY <1>0, <3>2 DEF PruneFails, Sync
    <3>3. CASE PrunePlayersFails(y)
      BY <1>0, <3>3 DEF PrunePlayersFails, Sync
    <3>4. CASE Crash(y)
      BY <1>0, <3>4 DEF Crash, Idle
    <3>. QED  BY <1>5, <3>1, <3>2, <3>3, <3>4 DEF Fail
  <2>. QED  BY <2>1 DEF Undisturbed, Active
<1>. QED  BY <1>1, <1>2, <1>3, <1>4, <1>5 DEF Next

\* A call that neither failed in part nor ran beside another leaves the tables
\* as the site listed its places (CleanSyncMirrors).
THEOREM CleanSyncsMirror == Spec => []CleanSyncMirrors
<1>1. Init => \A y \in Syncs : Clean(y)
  BY DEF Init, Idle, Clean, Undisturbed, Active
<1>2. PruneInv /\ (\A y \in Syncs : Clean(y)) /\ [Next]_vars
          => (\A y \in Syncs : Clean(y))'
  BY CleanNext
<1>3. PruneInv /\ (\A y \in Syncs : Clean(y)) => CleanSyncMirrors
  <2>. SUFFICES ASSUME PruneInv, \A z \in Syncs : Clean(z), NEW y \in Syncs,
                       sync[y].pc = "players", sync[y].gone = {},
                       ~sync[y].tainted
                PROVE  Mirror(sync[y].listed, sync[y].cars)
    BY DEF CleanSyncMirrors
  <2>. DEFINE s == sync[y]
              P == PlacesOf(s.listed)
  <2>1. Wrote(s) /\ Clears(s) /\ s \in Sync
    BY DEF Clean, Undisturbed, Active, PruneInv, TypeOK
  <2>2. s.succeeded = s.listed
    BY <2>1, ListedSurvive DEF Wrote
  <2>3. s.listed \subseteq races \cap related
    BY <2>1, <2>2 DEF Wrote
  <2>4. At(races, P) = At(s.listed, P)
    BY <2>1, <2>3 DEF At, Clears
  <2>5. ASSUME NEW r \in s.listed, s.cars[r] # {}
        PROVE  {p \in players : p[1] = r} = {r} \X s.cars[r]
    <3>1. r \in Races /\ s.cars[r] \subseteq Cars /\ players \subseteq Players
      BY <2>1, <2>5 DEF Sync, PruneInv, TypeOK
    <3>2. ASSUME NEW p \in players, p[1] = r
          PROVE  p \in {r} \X s.cars[r]
      <4>1. p[2] \in s.cars[r]
        BY <2>1, <2>2, <2>5, <3>2 DEF Clears
      <4>2. p = <<p[1], p[2]>>
        BY <3>1, <3>2 DEF Players
      <4>. QED  BY <3>2, <4>1, <4>2
    <3>3. ASSUME NEW k \in s.cars[r]
          PROVE  <<r, k>> \in players
      <4>1. <<r, k>> \in Players
        BY <3>1, <3>3 DEF Players
      <4>. QED  BY <2>1, <2>2, <2>5, <3>3, <4>1 DEF Wrote
    <3>4. {p \in players : p[1] = r} \subseteq {r} \X s.cars[r]
      BY <3>2
    <3>5. {r} \X s.cars[r] \subseteq {p \in players : p[1] = r}
      BY <3>3
    <3>. QED  BY <3>4, <3>5
  <2>. QED  BY <2>3, <2>4, <2>5 DEF Mirror
<1>. QED  BY <1>1, <1>2, <1>3, PruneInvHolds, PTL DEF Spec
=============================================================================
