-------------------------- MODULE FrontFavoritesProofs --------------------------
(***************************************************************************)
(* Proofs about FrontFavorites, for any races, taps and saves.  The first  *)
(* part follows a favourite from the tap to the request: nothing is        *)
(* deleted on the server but what a tap took off the list.  The second     *)
(* follows the one save under way while nothing fails and no save begins   *)
(* before another has ended: what its requests have yet to say is all that *)
(* the server and the list disagree about.                                 *)
(***************************************************************************)
EXTENDS FrontFavorites, Integers, FiniteSetTheorems, FunctionTheorems, TLAPS

\* Two sequences, one after the other.
LEMMA Joined ==
  ASSUME NEW S, NEW a \in Seq(S), NEW b \in Seq(S)
  PROVE  a \o b \in Seq(S) /\ Range(a \o b) = Range(a) \cup Range(b)
<1>1. /\ Len(a) \in Nat /\ Len(b) \in Nat /\ a \o b \in Seq(S)
      /\ DOMAIN a = 1..Len(a) /\ DOMAIN b = 1..Len(b)
      /\ DOMAIN (a \o b) = 1..(Len(a) + Len(b))
  OBVIOUS
<1>2. \A i \in 1..(Len(a) + Len(b)) :
          (a \o b)[i] = IF i <= Len(a) THEN a[i] ELSE b[i - Len(a)]
  OBVIOUS
<1>3. ASSUME NEW i \in 1..(Len(a) + Len(b))
      PROVE  (a \o b)[i] \in Range(a) \cup Range(b)
  <2>1. CASE i <= Len(a)
    <3>1. i \in DOMAIN a /\ (a \o b)[i] = a[i]
      BY <1>1, <1>2, <2>1
    <3>. QED  BY <3>1 DEF Range
  <2>2. CASE i > Len(a)
    <3>1. i - Len(a) \in DOMAIN b /\ (a \o b)[i] = b[i - Len(a)]
      BY <1>1, <1>2, <2>2
    <3>. QED  BY <3>1 DEF Range
  <2>. QED  BY <1>1, <2>1, <2>2
<1>4. ASSUME NEW j \in 1..Len(a) PROVE a[j] \in Range(a \o b)
  <2>1. j \in DOMAIN (a \o b) /\ (a \o b)[j] = a[j]
    BY <1>1, <1>2
  <2>. QED  BY <2>1 DEF Range
<1>5. ASSUME NEW j \in 1..Len(b) PROVE b[j] \in Range(a \o b)
  <2>1. PICK k \in Int : k = j + Len(a)
    BY <1>1
  <2>2. k \in 1..(Len(a) + Len(b)) /\ ~ (k <= Len(a)) /\ k - Len(a) = j
    BY <1>1, <2>1
  <2>3. (a \o b)[k] = b[j]
    BY <1>2, <2>2
  <2>. QED  BY <1>1, <2>2, <2>3 DEF Range
<1>6. Range(a \o b) \subseteq Range(a) \cup Range(b)
  BY <1>1, <1>3 DEF Range
<1>7. Range(a) \subseteq Range(a \o b) /\ Range(b) \subseteq Range(a \o b)
  <2>1. \A e \in Range(a) : e \in Range(a \o b)
    <3>. SUFFICES ASSUME NEW e \in Range(a) PROVE e \in Range(a \o b)
      OBVIOUS
    <3>1. PICK j \in 1..Len(a) : e = a[j]
      BY <1>1 DEF Range
    <3>. QED  BY <1>4, <3>1
  <2>2. \A e \in Range(b) : e \in Range(a \o b)
    <3>. SUFFICES ASSUME NEW e \in Range(b) PROVE e \in Range(a \o b)
      OBVIOUS
    <3>1. PICK j \in 1..Len(b) : e = b[j]
      BY <1>1 DEF Range
    <3>. QED  BY <1>5, <3>1
  <2>. QED  BY <2>1, <2>2
<1>. QED  BY <1>1, <1>6, <1>7

\* A sequence without its first element.
LEMMA Rest ==
  ASSUME NEW S, NEW s \in Seq(S), Len(s) > 1
  PROVE  /\ Tail(s) \in Seq(S) /\ Len(Tail(s)) = Len(s) - 1 /\ Tail(s) # << >>
         /\ \A i \in 1..Len(Tail(s)) : i + 1 \in 1..Len(s) /\ Tail(s)[i] = s[i + 1]
<1>1. s # << >> /\ Len(s) \in Nat
  OBVIOUS
<1>2. Tail(s) \in Seq(S) /\ Len(Tail(s)) = Len(s) - 1
  BY <1>1
<1>3. \A i \in 1..Len(Tail(s)) : i + 1 \in 1..Len(s) /\ Tail(s)[i] = s[i + 1]
  BY <1>1, <1>2
<1>4. Tail(s) # << >>
  <2>1. Len(Tail(s)) # 0
    BY <1>1, <1>2
  <2>2. Len(<< >>) = 0
    OBVIOUS
  <2>. QED  BY <2>1, <2>2, Zenon
<1>. QED  BY <1>2, <1>3, <1>4

\* Every request of a set occurs in each order of them.
LEMMA OrdersList ==
  ASSUME NEW S, IsFiniteSet(S), NEW q \in Orders(S)
  PROVE  q \in Seq(S) /\ Range(q) = S
<1>. DEFINE n == Cardinality(S)
<1>1. n \in Nat
  BY FS_CardinalityType
<1>2. IsFiniteSet(1..n) /\ Cardinality(1..n) = n
  BY <1>1, FS_Interval
<1>3. q \in [1..n -> S] /\ \A i, j \in 1..n : i # j => q[i] # q[j]
  BY DEF Orders
<1>. HIDE DEF n
<1>4. q \in Injection(1..n, S)
  BY <1>3 DEF Injection, IsInjective
<1>5. q \in Surjection(1..n, S)
  BY <1>2, <1>4, FS_Injection DEF n
<1>6. q \in Seq(S) /\ DOMAIN q = 1..n
  BY <1>1, <1>3
<1>. QED  BY <1>5, <1>6 DEF Surjection, Range

\* What a save sends: the races that differ, those to add and those to remove.
LEMMA RequestsList ==
  ASSUME ConstantsAssumption, NEW W \in SUBSET Races, Known \in SUBSET Races,
         NEW q \in Requests(W)
  PROVE  /\ q \in Seq(Races \X BOOLEAN)
         /\ \A i \in 1..Len(q) : /\ q[i][2] <=> q[i][1] \in W
                                 /\ ~q[i][2] => q[i][1] \in Known \ W
         /\ \A r \in Races : (r \in W <=> r \in Known) \/ \E i \in 1..Len(q) : q[i][1] = r
<1>. DEFINE A == (W \ Known) \X {TRUE}
            R == (Known \ W) \X {FALSE}
            P == Races \X BOOLEAN
<1>1. IsFiniteSet(Races)
  BY DEF ConstantsAssumption
<1>2. IsFiniteSet(A) /\ IsFiniteSet(R)
  <2>1. IsFiniteSet(W \ Known) /\ IsFiniteSet(Known \ W)
    BY <1>1, FS_Subset
  <2>2. IsFiniteSet({TRUE}) /\ IsFiniteSet({FALSE})
    BY FS_Singleton
  <2>. QED  BY <2>1, <2>2, FS_Product
<1>3. Requests(W) = {a \o b : a \in Orders(A), b \in Orders(R)}
  BY DEF Requests
<1>4. A \subseteq P /\ R \subseteq P
  OBVIOUS
<1>5. /\ \A e \in A : e[2] /\ e[1] \in W /\ e[1] \notin Known
      /\ \A e \in R : ~e[2] /\ e[1] \in Known /\ e[1] \notin W
      /\ \A r \in W \ Known : \E e \in A : e[1] = r
      /\ \A r \in Known \ W : \E e \in R : e[1] = r
  <2>1. \A r \in W \ Known : <<r, TRUE>> \in A /\ <<r, TRUE>>[1] = r
    OBVIOUS
  <2>2. \A r \in Known \ W : <<r, FALSE>> \in R /\ <<r, FALSE>>[1] = r
    OBVIOUS
  <2>3. /\ \A e \in A : e[2] /\ e[1] \in W /\ e[1] \notin Known
        /\ \A e \in R : ~e[2] /\ e[1] \in Known /\ e[1] \notin W
    OBVIOUS
  <2>. HIDE DEF A, R
  <2>. QED  BY <2>1, <2>2, <2>3
<1>. HIDE DEF A, R, P
<1>6. PICK a \in Orders(A), b \in Orders(R) : q = a \o b
  BY <1>3
<1>7. a \in Seq(A) /\ Range(a) = A /\ b \in Seq(R) /\ Range(b) = R
  BY <1>2, OrdersList, Zenon
<1>8. a \in Seq(P) /\ b \in Seq(P)
  BY <1>4, <1>7
<1>9. a \o b \in Seq(P) /\ Range(a \o b) = Range(a) \cup Range(b)
  BY <1>8, Joined, Zenon
<1>10. q \in Seq(P) /\ Range(q) = A \cup R
  BY <1>6, <1>7, <1>9, Zenon
<1>11. /\ \A i \in 1..Len(q) : q[i] \in A \cup R
       /\ \A e \in A \cup R : \E i \in 1..Len(q) : q[i] = e
  <2>1. DOMAIN q = 1..Len(q)
    BY <1>10
  <2>. QED  BY <1>10, <2>1, Zenon DEF Range
<1>12. \A i \in 1..Len(q) : /\ q[i][2] <=> q[i][1] \in W
                            /\ ~q[i][2] => q[i][1] \in Known \ W
  BY <1>5, <1>11
<1>13. ASSUME NEW r \in Races, ~ (r \in W <=> r \in Known)
       PROVE  \E i \in 1..Len(q) : q[i][1] = r
  <2>1. PICK e \in A \cup R : e[1] = r
    BY <1>5, <1>13
  <2>. QED  BY <1>11, <2>1
<1>. QED  BY <1>10, <1>12, <1>13 DEF P

\* Nothing has been done before the favourites are loaded.
Unloaded ==
    /\ shown = Absent /\ ~manual /\ pending = Absent /\ knownIds = Absent
    /\ \A s \in Slots : Free(s)

\* A save under way has requests to make, each of which takes a race to where the
\* save wants it.
Requesting(s) ==
    /\ saves[s].todo # << >>
    /\ \A i \in 1..Len(saves[s].todo) :
           saves[s].todo[i][2] <=> saves[s].todo[i][1] \in saves[s].wanted

FavoriteTypes == TypeOK /\ \A s \in Slots : Free(s) \/ Requesting(s)

\* Once the favourites are loaded what is pending is what is shown.
FavoriteShape ==
    /\ FavoriteTypes
    /\ load # "done" => Unloaded
    /\ load = "done" => shown # Absent /\ knownIds # Absent /\ pending \in {Absent, shown}

\* What the parts of a save are.
LEMMA SaveParts ==
  ASSUME ConstantsAssumption, TypeOK, NEW s \in Slots, ~Free(s)
  PROVE  /\ saves[s] \in Save /\ saves[s].wanted \in SUBSET Races
         /\ saves[s].todo \in Seq(Races \X BOOLEAN) /\ Len(saves[s].todo) \in Nat
         /\ saves[s].executed \in BOOLEAN /\ saves[s].listeners \in Seq(Feedback)
BY DEF TypeOK, Free, Save

LEMMA TypesOfStart == ASSUME ConstantsAssumption, Init PROVE FavoriteTypes
<1>1. /\ saves \in [Slots -> Save \cup {Absent}] /\ listeners \in Seq(Feedback)
      /\ taps \in 0..MaxTaps /\ failed \in 0..MaxFailures
  BY DEF Init, ConstantsAssumption
<1>2. \A s \in Slots : Free(s)
  BY DEF Init, Free
<1>. QED  BY <1>1, <1>2 DEF Init, TypeOK, FavoriteTypes

\* What a tap or a listener shows is a set of races.
LEMMA Shown ==
  ASSUME TypeOK
  PROVE  /\ Value \in SUBSET Races
         /\ \A r \in Races : Toggled(Value, r) \in SUBSET Races
         /\ \A told : TurnedBack(told) \in SUBSET Races
BY DEF TypeOK, Value, Toggled, TurnedBack

LEMMA TypesOfLoad ==
  ASSUME ConstantsAssumption, FavoriteTypes, ReadFavorites \/ Loaded \/ LoadFails \/ Rebuild
  PROVE  FavoriteTypes'
<1>0. TypeOK
  BY DEF FavoriteTypes
<1>1. TypeOK'
  <2>1. failed' \in 0..MaxFailures
    BY <1>0 DEF ReadFavorites, Loaded, LoadFails, Rebuild, history, TypeOK,
                ConstantsAssumption
  <2>2. CASE ReadFavorites \/ LoadFails \/ Rebuild
    BY <1>0, <2>1, <2>2 DEF ReadFavorites, LoadFails, Rebuild, client, history, TypeOK
  <2>3. CASE Loaded
    BY <1>0, <2>1, <2>3 DEF Loaded, history, TypeOK
  <2>. QED  BY <2>2, <2>3
<1>2. saves' = saves
  BY DEF ReadFavorites, Loaded, LoadFails, Rebuild
<1>. QED  BY <1>1, <1>2 DEF FavoriteTypes, Free, Requesting

LEMMA TypesOfTap ==
  ASSUME ConstantsAssumption, FavoriteTypes, ClearAll \/ \E race \in Races : Tap(race)
  PROVE  FavoriteTypes' /\ shown' \in SUBSET Races /\ pending' = shown'
<1>0. TypeOK /\ load' = load /\ knownIds' = knownIds /\ saves' = saves
  BY DEF FavoriteTypes, ClearAll, Tap
<1>1. shown' \in SUBSET Races /\ pending' = shown'
  BY <1>0, Shown DEF ClearAll, Tap
<1>2. TypeOK'
  <2>1. CASE ClearAll
    <3>1. taps' \in 0..MaxTaps /\ removed' \in SUBSET Races
      BY <1>0, <2>1 DEF ClearAll, TypeOK, ConstantsAssumption
    <3>. QED  BY <1>0, <1>1, <2>1, <3>1 DEF ClearAll, TypeOK
  <2>2. ASSUME NEW race \in Races, Tap(race) PROVE TypeOK'
    <3>1. listeners' \in Seq(Feedback)
      <4>1. [race |-> race, wasFavorite |-> race \in Value] \in Feedback
        BY DEF Feedback
      <4>. QED  BY <1>0, <2>2, <4>1 DEF Tap, TypeOK
    <3>2. removed' \in SUBSET Races /\ taps' \in 0..MaxTaps
      BY <1>0, <2>2 DEF Tap, TypeOK, ConstantsAssumption
    <3>. QED  BY <1>0, <1>1, <2>2, <3>1, <3>2 DEF Tap, TypeOK
  <2>. QED  BY <2>1, <2>2
<1>. QED  BY <1>0, <1>1, <1>2 DEF FavoriteTypes, Free, Requesting

\* A save that starts.
LEMMA Started ==
  ASSUME ConstantsAssumption, TypeOK, NEW s \in Slots, FlushPendingSave(s)
  PROVE  /\ pending \in SUBSET Races /\ Known \in SUBSET Races
         /\ \/ /\ saves' = saves /\ knownIds' = pending
               /\ \A r \in Races : r \in pending <=> r \in Known
            \/ \E new \in Save :
                  /\ saves' = [saves EXCEPT ![s] = new] /\ knownIds' = knownIds
                  /\ new.wanted = pending /\ ~new.executed /\ new.todo # << >>
                  /\ \A i \in 1..Len(new.todo) :
                        /\ new.todo[i][2] <=> new.todo[i][1] \in pending
                        /\ ~new.todo[i][2] => new.todo[i][1] \in Known \ pending
                  /\ \A r \in Races : (r \in pending <=> r \in Known)
                                      \/ \E i \in 1..Len(new.todo) : new.todo[i][1] = r
<1>1. pending \in SUBSET Races
  BY DEF FlushPendingSave, TypeOK
<1>2. Known \in SUBSET Races
  BY DEF Known, TypeOK
<1>3. PICK q \in Requests(pending) :
          IF q = << >> THEN knownIds' = KnownAfter(pending) /\ saves' = saves
          ELSE /\ saves' = [saves EXCEPT ![s] = [wanted |-> pending, todo |-> q,
                                executed |-> FALSE, listeners |-> listeners]]
               /\ knownIds' = knownIds
  BY <1>1 DEF FlushPendingSave
<1>4. /\ q \in Seq(Races \X BOOLEAN)
      /\ \A i \in 1..Len(q) : /\ q[i][2] <=> q[i][1] \in pending
                              /\ ~q[i][2] => q[i][1] \in Known \ pending
      /\ \A r \in Races : (r \in pending <=> r \in Known)
                          \/ \E i \in 1..Len(q) : q[i][1] = r
  BY <1>1, <1>2, RequestsList
<1>5. CASE q = << >>
  <2>1. \A r \in Races : (r \in pending <=> r \in Known)
    <3>1. 1..Len(q) = {}
      BY <1>5
    <3>. QED  BY <1>4, <3>1
  <2>. QED  BY <1>1, <1>2, <1>3, <1>5, <2>1 DEF KnownAfter
<1>6. CASE q # << >>
  <2>1. PICK new \in Save : new = [wanted |-> pending, todo |-> q, executed |-> FALSE,
                                   listeners |-> listeners]
    BY <1>1, <1>4 DEF Save, TypeOK
  <2>2. /\ new.wanted = pending /\ new.todo = q /\ ~new.executed
        /\ saves' = [saves EXCEPT ![s] = new] /\ knownIds' = knownIds
    BY <1>3, <1>6, <2>1
  <2>3. /\ new.todo # << >>
        /\ \A i \in 1..Len(new.todo) : /\ new.todo[i][2] <=> new.todo[i][1] \in pending
                                       /\ ~new.todo[i][2] => new.todo[i][1] \in Known \ pending
        /\ \A r \in Races : (r \in pending <=> r \in Known)
                            \/ \E i \in 1..Len(new.todo) : new.todo[i][1] = r
    BY <1>4, <1>6, <2>2, Zenon
  <2>. QED  BY <1>1, <1>2, <2>2, <2>3, Zenon
<1>. QED  BY <1>5, <1>6

LEMMA TypesOfFlush ==
  ASSUME ConstantsAssumption, FavoriteTypes, NEW s \in Slots, FlushPendingSave(s)
  PROVE  FavoriteTypes' /\ (knownIds' = knownIds \/ knownIds' \in SUBSET Races)
<1>0. /\ TypeOK /\ pending' = Absent /\ listeners' = << >> /\ lastSaved' \in BOOLEAN
      /\ UNCHANGED <<favorites, load, snapshot, shown, manual, taps, failed, removed>>
  BY DEF FavoriteTypes, FlushPendingSave, TypeOK
<1>1. pending \in SUBSET Races
  BY <1>0, Started
<1>2. /\ saves' \in [Slots -> Save \cup {Absent}]
      /\ knownIds' = knownIds \/ knownIds' \in SUBSET Races
      /\ \A t \in Slots : Free(t)' \/ Requesting(t)'
  <2>1. CASE saves' = saves /\ knownIds' = pending
    BY <1>0, <1>1, <2>1 DEF TypeOK, FavoriteTypes, Free, Requesting
  <2>2. ASSUME NEW new \in Save, new.todo # << >>, knownIds' = knownIds,
               \A i \in 1..Len(new.todo) : new.todo[i][2] <=> new.todo[i][1] \in new.wanted,
               saves' = [saves EXCEPT ![s] = new]
        PROVE  /\ saves' \in [Slots -> Save \cup {Absent}]
               /\ knownIds' = knownIds \/ knownIds' \in SUBSET Races
               /\ \A t \in Slots : Free(t)' \/ Requesting(t)'
    <3>1. saves' \in [Slots -> Save \cup {Absent}]
      BY <1>0, <2>2 DEF TypeOK
    <3>2. saves'[s] = new /\ \A t \in Slots \ {s} : saves'[t] = saves[t]
      BY <1>0, <2>2 DEF TypeOK
    <3>3. \A t \in Slots \ {s} : Free(t)' \/ Requesting(t)'
      BY <3>2 DEF FavoriteTypes, Free, Requesting
    <3>4. Requesting(s)'
      BY <2>2, <3>2 DEF Requesting
    <3>. QED  BY <2>2, <3>1, <3>3, <3>4
  <2>. QED  BY <1>0, <2>1, <2>2, Started
<1>3. TypeOK'
  BY <1>0, <1>2 DEF TypeOK
<1>. QED  BY <1>2, <1>3 DEF FavoriteTypes

\* A request that the server executes, and one that is answered.
LEMMA TypesOfRequest ==
  ASSUME ConstantsAssumption, FavoriteTypes, NEW s \in Slots, Execute(s) \/ Answered(s)
  PROVE  FavoriteTypes'
<1>0. TypeOK /\ ~Free(s) /\ Requesting(s)
  BY DEF FavoriteTypes, Execute, Answered
<1>. DEFINE old == saves[s]
<1>1. /\ old \in Save /\ old.wanted \in SUBSET Races /\ old.todo \in Seq(Races \X BOOLEAN)
      /\ old.todo # << >> /\ Len(old.todo) \in Nat \ {0}
      /\ \A i \in 1..Len(old.todo) : old.todo[i][2] <=> old.todo[i][1] \in old.wanted
  BY <1>0, SaveParts DEF Requesting
<1>2. CASE Execute(s)
  <2>1. PICK new \in Save : new = [old EXCEPT !.executed = TRUE]
    BY <1>1 DEF Save
  <2>2. /\ saves' = [saves EXCEPT ![s] = new] /\ saves \in [Slots -> Save \cup {Absent}]
        /\ new.todo = old.todo /\ new.wanted = old.wanted
    BY <1>0, <1>1, <1>2, <2>1 DEF Execute, TypeOK, Save
  <2>3. /\ saves' \in [Slots -> Save \cup {Absent}]
        /\ saves'[s] = new /\ \A t \in Slots \ {s} : saves'[t] = saves[t]
    BY <2>2
  <2>4. \A t \in Slots \ {s} : Free(t)' \/ Requesting(t)'
    BY <2>3 DEF FavoriteTypes, Free, Requesting
  <2>5. Requesting(s)'
    BY <1>1, <2>2, <2>3 DEF Requesting
  <2>6. favorites' \in SUBSET Races
    <3>1. Head(old.todo) \in Races \X BOOLEAN
      BY <1>1
    <3>2. Head(old.todo)[1] \in Races
      BY <3>1
    <3>. QED  BY <1>0, <1>2, <3>2 DEF Execute, TypeOK
  <2>7. TypeOK'
    BY <1>0, <1>2, <2>3, <2>6 DEF Execute, client, history, TypeOK
  <2>. QED  BY <2>4, <2>5, <2>7 DEF FavoriteTypes
<1>3. CASE Answered(s) /\ Len(old.todo) > 1
  <2>1. PICK rest \in Seq(Races \X BOOLEAN) :
            /\ rest = Tail(old.todo) /\ rest # << >>
            /\ \A i \in 1..Len(rest) :
                   i + 1 \in 1..Len(old.todo) /\ rest[i] = old.todo[i + 1]
    <3>. HIDE DEF old
    <3>. QED  BY <1>1, <1>3, Rest, Zenon
  <2>2. PICK new \in Save : new = [old EXCEPT !.todo = rest, !.executed = FALSE]
    BY <1>1 DEF Save
  <2>3. /\ saves' = [saves EXCEPT ![s] = new] /\ saves \in [Slots -> Save \cup {Absent}]
        /\ new.todo = rest /\ new.wanted = old.wanted
    <3>1. saves' = [saves EXCEPT ![s].todo = Tail(@), ![s].executed = FALSE]
      BY <1>3 DEF Answered
    <3>2. new.todo = rest /\ new.wanted = old.wanted
      BY <1>1, <2>2 DEF Save
    <3>. QED  BY <1>0, <1>1, <2>1, <2>2, <3>1, <3>2 DEF TypeOK, Save
  <2>4. /\ saves' \in [Slots -> Save \cup {Absent}]
        /\ saves'[s] = new /\ \A t \in Slots \ {s} : saves'[t] = saves[t]
    BY <2>3
  <2>5. \A t \in Slots \ {s} : Free(t)' \/ Requesting(t)'
    BY <2>4 DEF FavoriteTypes, Free, Requesting
  <2>6. Requesting(s)'
    <3>3. \A i \in 1..Len(rest) : rest[i][2] <=> rest[i][1] \in old.wanted
      <4>. HIDE DEF old
      <4>. QED  BY <1>1, <2>1
    <3>. QED  BY <2>1, <2>3, <2>4, <3>3 DEF Requesting
  <2>7. TypeOK'
    BY <1>0, <1>3, <2>4 DEF Answered, client, TypeOK
  <2>. QED  BY <2>5, <2>6, <2>7 DEF FavoriteTypes
<1>4. CASE Answered(s) /\ ~ (Len(old.todo) > 1)
  <2>1. /\ saves' = [saves EXCEPT ![s] = Absent] /\ saves \in [Slots -> Save \cup {Absent}]
        /\ knownIds' = old.wanted /\ lastSaved' = TRUE
        /\ UNCHANGED <<favorites, load, snapshot, shown, manual, pending, listeners,
                       taps, failed, removed>>
    BY <1>0, <1>4 DEF Answered, TypeOK, KnownAfter, client
  <2>2. /\ saves' \in [Slots -> Save \cup {Absent}]
        /\ saves'[s] = Absent /\ \A t \in Slots \ {s} : saves'[t] = saves[t]
    BY <2>1
  <2>3. \A t \in Slots : Free(t)' \/ Requesting(t)'
    BY <2>2 DEF FavoriteTypes, Free, Requesting
  <2>4. TypeOK'
    BY <1>0, <1>1, <2>1, <2>2 DEF TypeOK
  <2>. QED  BY <2>3, <2>4 DEF FavoriteTypes
<1>. QED  BY <1>2, <1>3, <1>4

LEMMA TypesOfFailure ==
  ASSUME ConstantsAssumption, FavoriteTypes, NEW s \in Slots, FailRequest(s)
  PROVE  FavoriteTypes'
<1>0. TypeOK /\ ~Free(s) /\ load' = load /\ knownIds' = knownIds
  BY DEF FavoriteTypes, FailRequest
<1>1. /\ shown' \in (SUBSET Races) \cup {Absent}
      /\ pending' \in (SUBSET Races) \cup {Absent} /\ manual' \in BOOLEAN
  BY <1>0, Shown DEF FailRequest, TypeOK
<1>2. /\ saves' \in [Slots -> Save \cup {Absent}]
      /\ saves'[s] = Absent /\ \A t \in Slots \ {s} : saves'[t] = saves[t]
  BY <1>0 DEF FailRequest, TypeOK
<1>3. \A t \in Slots : Free(t)' \/ Requesting(t)'
  BY <1>2 DEF FavoriteTypes, Free, Requesting
<1>4. removed' \in SUBSET Races /\ failed' \in 0..MaxFailures
  BY <1>0, Shown DEF FailRequest, TypeOK, ConstantsAssumption
<1>5. TypeOK'
  BY <1>0, <1>1, <1>2, <1>4 DEF FailRequest, TypeOK
<1>. QED  BY <1>3, <1>5 DEF FavoriteTypes

LEMMA TypesKept ==
  ASSUME ConstantsAssumption, FavoriteTypes, [Next]_vars
  PROVE  FavoriteTypes'
<1>1. CASE UNCHANGED vars
  BY <1>1 DEF vars, client, history, FavoriteTypes, TypeOK, Free, Requesting
<1>. QED
  BY <1>1, TypesOfLoad, TypesOfTap, TypesOfFlush, TypesOfRequest, TypesOfFailure DEF Next

\* The favourites keep their types, also while taps come before the load
\* (favorite_ids_provider.dart, remote_favorites_repository.dart).
THEOREM TypeCorrect == ASSUME ConstantsAssumption PROVE Spec => []TypeOK
<1>1. Init => FavoriteTypes
  BY TypesOfStart
<1>2. FavoriteTypes /\ [Next]_vars => FavoriteTypes'
  BY TypesKept
<1>3. FavoriteTypes => TypeOK
  BY DEF FavoriteTypes
<1>. QED  BY <1>1, <1>2, <1>3, PTL DEF Spec

-----------------------------------------------------------------------------
\* Who may not tap before the load ends keeps the shape as well.
LEMMA ShapeOfStart == ASSUME ConstantsAssumption, Init PROVE FavoriteShape
<1>1. Unloaded /\ load # "done"
  BY DEF Init, Unloaded, Free
<1>. QED  BY <1>1, TypesOfStart DEF FavoriteShape

LEMMA ShapeKept ==
  ASSUME ConstantsAssumption, EarlyTaps = FALSE, FavoriteShape, [Next]_vars
  PROVE  FavoriteShape'
<1>. TypeOK /\ FavoriteTypes /\ FavoriteTypes'
  BY TypesKept DEF FavoriteShape, FavoriteTypes
<1>1. CASE UNCHANGED vars
  BY <1>1 DEF vars, client, FavoriteShape, Unloaded, Free
<1>2. CASE ReadFavorites \/ Loaded \/ LoadFails \/ Rebuild
  <2>1. load # "done" /\ Unloaded /\ saves' = saves /\ snapshot # Absent
    BY <1>2 DEF FavoriteShape, ReadFavorites, Loaded, LoadFails, Rebuild, TypeOK,
                ConstantsAssumption
  <2>2. \A s \in Slots : Free(s)'
    BY <2>1 DEF Unloaded, Free
  <2>3. CASE Loaded
    BY <2>1, <2>3 DEF Loaded, FavoriteShape, Unloaded
  <2>4. CASE ReadFavorites \/ LoadFails \/ Rebuild
    BY <2>1, <2>2, <2>4 DEF ReadFavorites, LoadFails, Rebuild, client, FavoriteShape, Unloaded
  <2>. QED  BY <1>2, <2>3, <2>4
<1>3. CASE ClearAll \/ \E race \in Races : Tap(race)
  <2>1. load = "done" /\ load' = "done" /\ knownIds' = knownIds
    BY <1>3 DEF ClearAll, Tap
  <2>2. shown' \in SUBSET Races /\ pending' = shown'
    BY <1>3, TypesOfTap
  <2>. QED  BY <2>1, <2>2 DEF FavoriteShape, ConstantsAssumption
<1>4. ASSUME NEW s \in Slots, FlushPendingSave(s) PROVE FavoriteShape'
  <2>1. load = "done" /\ load' = "done" /\ shown' = shown /\ pending' = Absent
    BY <1>4 DEF FlushPendingSave, FavoriteShape, Unloaded
  <2>2. knownIds' # Absent
    BY <1>4, <2>1, TypesOfFlush DEF FavoriteShape, ConstantsAssumption
  <2>. QED  BY <2>1, <2>2 DEF FavoriteShape
<1>5. ASSUME NEW s \in Slots, Execute(s) \/ Answered(s) PROVE FavoriteShape'
  <2>1. load = "done" /\ load' = "done" /\ UNCHANGED <<shown, pending>> /\ ~Free(s)
    BY <1>5 DEF Execute, Answered, client, FavoriteShape, Unloaded
  <2>2. saves[s].wanted # Absent
    BY <2>1, SaveParts DEF ConstantsAssumption
  <2>3. knownIds' # Absent
    BY <1>5, <2>1, <2>2 DEF Execute, Answered, KnownAfter, FavoriteShape
  <2>. QED  BY <2>1, <2>3 DEF FavoriteShape
<1>6. ASSUME NEW s \in Slots, FailRequest(s) PROVE FavoriteShape'
  <2>1. load = "done" /\ load' = "done" /\ knownIds' = knownIds
    BY <1>6 DEF FailRequest, FavoriteShape, Unloaded
  <2>2. shown' # Absent /\ pending' \in {Absent, shown'}
    BY <1>6, <2>1, Shown DEF FailRequest, FavoriteShape, ConstantsAssumption
  <2>. QED  BY <2>1, <2>2 DEF FavoriteShape
<1>. QED  BY <1>1, <1>2, <1>3, <1>4, <1>5, <1>6 DEF Next

\* A save that starts then saves what is shown.
LEMMA ShownStarted ==
  ASSUME ConstantsAssumption, FavoriteShape, NEW s \in Slots, FlushPendingSave(s)
  PROVE  /\ TypeOK /\ load = "done" /\ pending = shown /\ shown \in SUBSET Races
         /\ Known \in SUBSET Races /\ Known = knownIds
         /\ \/ /\ saves' = saves /\ knownIds' = shown
               /\ \A r \in Races : r \in shown <=> r \in Known
            \/ \E new \in Save :
                  /\ saves' = [saves EXCEPT ![s] = new] /\ knownIds' = knownIds
                  /\ new.wanted = shown /\ ~new.executed /\ new.todo # << >>
                  /\ \A i \in 1..Len(new.todo) :
                        /\ new.todo[i][2] <=> new.todo[i][1] \in shown
                        /\ ~new.todo[i][2] => new.todo[i][1] \in Known \ shown
                  /\ \A r \in Races : (r \in shown <=> r \in Known)
                                      \/ \E i \in 1..Len(new.todo) : new.todo[i][1] = r
<1>1. TypeOK /\ load = "done" /\ pending = shown /\ Known = knownIds
  BY DEF FavoriteShape, FavoriteTypes, FlushPendingSave, Unloaded, Known
<1>2. /\ pending \in SUBSET Races /\ Known \in SUBSET Races
      /\ \/ /\ saves' = saves /\ knownIds' = pending
            /\ \A r \in Races : r \in pending <=> r \in Known
         \/ \E new \in Save :
               /\ saves' = [saves EXCEPT ![s] = new] /\ knownIds' = knownIds
               /\ new.wanted = pending /\ ~new.executed /\ new.todo # << >>
               /\ \A i \in 1..Len(new.todo) :
                     /\ new.todo[i][2] <=> new.todo[i][1] \in pending
                     /\ ~new.todo[i][2] => new.todo[i][1] \in Known \ pending
               /\ \A r \in Races : (r \in pending <=> r \in Known)
                                   \/ \E i \in 1..Len(new.todo) : new.todo[i][1] = r
  BY <1>1, Started
<1>. QED  BY <1>1, <1>2

-----------------------------------------------------------------------------
\* What is believed to be on the server and is not shown was turned off, and so
\* was what a save is about to remove.
RemovedInv ==
    /\ FavoriteShape
    /\ load = "done" =>
          /\ knownIds \ shown \subseteq removed
          /\ \A s \in Slots : ~Free(s) =>
                /\ saves[s].wanted \ shown \subseteq removed
                /\ \A i \in 1..Len(saves[s].todo) :
                       ~saves[s].todo[i][2] => saves[s].todo[i][1] \in removed

\* What is shown changes: who turned a race off is remembered.
LEMMA ShownMoves ==
  ASSUME RemovedInv, FavoriteShape', load = "done", knownIds' = knownIds,
         \A t \in Slots : Free(t)' \/ saves'[t] = saves[t],
         shown \ shown' \subseteq removed', removed \subseteq removed'
  PROVE  RemovedInv'
BY DEF RemovedInv, Free

LEMMA RemovedOnLoad ==
  ASSUME ConstantsAssumption, RemovedInv, FavoriteShape',
         ReadFavorites \/ Loaded \/ LoadFails \/ Rebuild
  PROVE  RemovedInv'
<1>1. CASE Loaded
  <2>1. Unloaded /\ load # "done"
    BY <1>1 DEF RemovedInv, FavoriteShape, FavoriteTypes, Loaded
  <2>2. shown' = knownIds' /\ saves' = saves
    BY <1>1, <2>1 DEF Loaded, Unloaded
  <2>3. \A s \in Slots : Free(s)'
    BY <2>1, <2>2 DEF Unloaded, Free
  <2>. QED  BY <2>2, <2>3 DEF RemovedInv
<1>2. CASE ReadFavorites \/ LoadFails \/ Rebuild
  BY <1>2 DEF RemovedInv, ReadFavorites, LoadFails, Rebuild
<1>. QED  BY <1>1, <1>2

LEMMA RemovedOnTap ==
  ASSUME ConstantsAssumption, EarlyTaps = FALSE, RemovedInv, FavoriteShape',
         ClearAll \/ \E race \in Races : Tap(race)
  PROVE  RemovedInv'
<1>1. /\ load = "done" /\ knownIds' = knownIds /\ saves' = saves /\ TypeOK
      /\ shown \in SUBSET Races /\ Value = shown
  BY DEF ClearAll, Tap, RemovedInv, FavoriteShape, FavoriteTypes, TypeOK, Value
<1>2. shown \ shown' \subseteq removed' /\ removed \subseteq removed'
  BY <1>1 DEF ClearAll, Tap, Toggled, TypeOK
<1>. QED  BY <1>1, <1>2, ShownMoves

LEMMA RemovedOnFailure ==
  ASSUME ConstantsAssumption, RemovedInv, FavoriteShape', NEW s \in Slots, FailRequest(s)
  PROVE  RemovedInv'
<1>1. /\ load = "done" /\ knownIds' = knownIds /\ TypeOK
      /\ shown \in SUBSET Races /\ Value = shown
  BY DEF FailRequest, RemovedInv, FavoriteShape, FavoriteTypes, Unloaded, TypeOK, Value
<1>2. \A t \in Slots : Free(t)' \/ saves'[t] = saves[t]
  BY <1>1 DEF FailRequest, TypeOK, Free
<1>3. shown \ shown' \subseteq removed' /\ removed \subseteq removed'
  BY <1>1 DEF FailRequest
<1>. QED  BY <1>1, <1>2, <1>3, ShownMoves

LEMMA RemovedOnFlush ==
  ASSUME ConstantsAssumption, RemovedInv, FavoriteShape', NEW s \in Slots,
         FlushPendingSave(s)
  PROVE  RemovedInv'
<1>1. /\ load = "done" /\ Known = knownIds /\ TypeOK
      /\ shown' = shown /\ removed' = removed
  BY ShownStarted DEF FlushPendingSave, RemovedInv, FavoriteShape, FavoriteTypes
<1>2. CASE saves' = saves /\ knownIds' = shown
  BY <1>1, <1>2 DEF RemovedInv, Free
<1>3. ASSUME NEW new \in Save, knownIds' = knownIds, new.wanted = shown,
             \A i \in 1..Len(new.todo) : ~new.todo[i][2] => new.todo[i][1] \in Known \ shown,
             saves' = [saves EXCEPT ![s] = new]
      PROVE  RemovedInv'
  <2>1. saves'[s] = new /\ \A t \in Slots \ {s} : saves'[t] = saves[t]
    BY <1>1, <1>3 DEF TypeOK
  <2>2. \A i \in 1..Len(new.todo) : ~new.todo[i][2] => new.todo[i][1] \in removed
    BY <1>1, <1>3 DEF RemovedInv
  <2>3. \A t \in Slots : ~Free(t)' =>
            /\ saves'[t].wanted \ shown \subseteq removed
            /\ \A i \in 1..Len(saves'[t].todo) :
                   ~saves'[t].todo[i][2] => saves'[t].todo[i][1] \in removed
    <3>1. ASSUME NEW t \in Slots \ {s}, ~Free(t)'
          PROVE  /\ saves'[t].wanted \ shown \subseteq removed
                 /\ \A i \in 1..Len(saves'[t].todo) :
                        ~saves'[t].todo[i][2] => saves'[t].todo[i][1] \in removed
      BY <1>1, <2>1, <3>1 DEF RemovedInv, Free
    <3>. QED  BY <1>3, <2>1, <2>2, <3>1
  <2>. QED  BY <1>1, <1>3, <2>3 DEF RemovedInv
<1>. QED  BY <1>2, <1>3, ShownStarted DEF RemovedInv

LEMMA RemovedOnRequest ==
  ASSUME ConstantsAssumption, RemovedInv, FavoriteShape', NEW s \in Slots,
         Execute(s) \/ Answered(s)
  PROVE  RemovedInv'
<1>1. /\ load = "done" /\ TypeOK /\ shown' = shown /\ removed' = removed /\ ~Free(s)
      /\ saves \in [Slots -> Save \cup {Absent}]
  BY DEF Execute, Answered, client, history, RemovedInv, FavoriteShape, FavoriteTypes,
         Unloaded, TypeOK
<1>. DEFINE old == saves[s]
            Fits(v) == /\ v.wanted \ shown \subseteq removed
                       /\ \A i \in 1..Len(v.todo) :
                              ~v.todo[i][2] => v.todo[i][1] \in removed
<1>2. /\ old \in Save /\ old.todo \in Seq(Races \X BOOLEAN)
      /\ \A t \in Slots : ~Free(t) => Fits(saves[t])
  BY <1>1, SaveParts DEF RemovedInv
<1>3. CASE Execute(s)
  <2>1. PICK new \in Save : new = [old EXCEPT !.executed = TRUE]
    BY <1>2 DEF Save
  <2>2. /\ saves' = [saves EXCEPT ![s] = new] /\ knownIds' = knownIds
        /\ new.todo = old.todo /\ new.wanted = old.wanted
    BY <1>1, <1>2, <1>3, <2>1 DEF Execute, Save
  <2>3. saves'[s] = new /\ \A t \in Slots \ {s} : saves'[t] = saves[t]
    BY <1>1, <2>2
  <2>4. \A t \in Slots : ~Free(t)' => Fits(saves'[t])
    BY <1>1, <1>2, <2>2, <2>3 DEF Free
  <2>. QED  BY <1>1, <2>2, <2>4 DEF RemovedInv
<1>4. CASE Answered(s) /\ Len(old.todo) > 1
  <2>1. PICK rest \in Seq(Races \X BOOLEAN) :
            /\ rest = Tail(old.todo)
            /\ \A i \in 1..Len(rest) :
                   i + 1 \in 1..Len(old.todo) /\ rest[i] = old.todo[i + 1]
    <3>. HIDE DEF old
    <3>. QED  BY <1>2, <1>4, Rest, Zenon
  <2>2. PICK new \in Save : new = [old EXCEPT !.todo = rest, !.executed = FALSE]
    BY <1>2 DEF Save
  <2>3. new.todo = rest /\ new.wanted = old.wanted
    BY <1>2, <2>2 DEF Save
  <2>4. saves' = [saves EXCEPT ![s] = new] /\ knownIds' = knownIds
    BY <1>1, <1>2, <1>4, <2>1, <2>2 DEF Answered, Save
  <2>5. saves'[s] = new /\ \A t \in Slots \ {s} : saves'[t] = saves[t]
    BY <1>1, <2>4
  <2>6. Fits(new)
    BY <1>1, <1>2, <2>1, <2>3
  <2>7. \A t \in Slots : ~Free(t)' => Fits(saves'[t])
    <3>1. ASSUME NEW t \in Slots \ {s}, ~Free(t)' PROVE Fits(saves'[t])
      BY <1>2, <2>5, <3>1 DEF Free
    <3>. QED  BY <2>5, <2>6, <3>1
  <2>. QED  BY <1>1, <2>4, <2>7 DEF RemovedInv
<1>5. CASE Answered(s) /\ ~ (Len(old.todo) > 1)
  <2>1. saves' = [saves EXCEPT ![s] = Absent] /\ knownIds' = old.wanted
    BY <1>5 DEF Answered, KnownAfter
  <2>2. saves'[s] = Absent /\ \A t \in Slots \ {s} : saves'[t] = saves[t]
    BY <1>1, <2>1
  <2>3. \A t \in Slots : ~Free(t)' => Fits(saves'[t])
    <3>1. ASSUME NEW t \in Slots \ {s}, ~Free(t)' PROVE Fits(saves'[t])
      BY <1>2, <2>2, <3>1 DEF Free
    <3>2. Free(s)'
      BY <2>2 DEF Free
    <3>. QED  BY <3>1, <3>2
  <2>. QED  BY <1>1, <1>2, <2>1, <2>3 DEF RemovedInv
<1>. QED  BY <1>3, <1>4, <1>5

LEMMA RemovedKept ==
  ASSUME ConstantsAssumption, EarlyTaps = FALSE, RemovedInv, [Next]_vars
  PROVE  RemovedInv'
<1>1. FavoriteShape'
  BY ShapeKept DEF RemovedInv
<1>2. CASE UNCHANGED vars
  BY <1>1, <1>2 DEF vars, client, history, RemovedInv, Free
<1>. QED
  BY <1>1, <1>2, RemovedOnLoad, RemovedOnTap, RemovedOnFlush, RemovedOnRequest,
     RemovedOnFailure DEF Next

\* A favourite leaves the server by a request to remove it.
LEMMA RemovedStep ==
  ASSUME ConstantsAssumption, RemovedInv, [Next]_vars
  PROVE  OnlyRemovedDisappears
<1>1. ASSUME NEW s \in Slots, Execute(s) PROVE OnlyRemovedDisappears
  <2>. DEFINE todo == saves[s].todo
  <2>1. /\ load = "done" /\ TypeOK /\ ~Free(s) /\ Requesting(s)
    BY <1>1 DEF Execute, RemovedInv, FavoriteShape, FavoriteTypes, Unloaded
  <2>2. todo \in Seq(Races \X BOOLEAN) /\ todo # << >>
    BY <2>1, SaveParts DEF Requesting
  <2>3. 1 \in 1..Len(todo) /\ Head(todo) = todo[1]
    BY <2>2
  <2>4. ~todo[1][2] => todo[1][1] \in removed
    BY <2>1, <2>3 DEF RemovedInv
  <2>5. favorites' = IF Head(todo)[2] THEN favorites \cup {Head(todo)[1]}
                     ELSE favorites \ {Head(todo)[1]}
    BY <1>1 DEF Execute
  <2>. HIDE DEF todo
  <2>. QED  BY <2>3, <2>4, <2>5 DEF OnlyRemovedDisappears
<1>2. CASE favorites' = favorites
  BY <1>2 DEF OnlyRemovedDisappears
<1>3. ASSUME NEW s \in Slots, FlushPendingSave(s) \/ Answered(s) \/ FailRequest(s)
      PROVE  favorites' = favorites
  BY <1>3 DEF FlushPendingSave, Answered, FailRequest
<1>4. CASE ReadFavorites \/ Loaded \/ LoadFails \/ Rebuild \/ UNCHANGED vars
  BY <1>2, <1>4 DEF ReadFavorites, Loaded, LoadFails, Rebuild, vars
<1>5. CASE ClearAll \/ \E race \in Races : Tap(race)
  BY <1>2, <1>5 DEF ClearAll, Tap
<1>. QED  BY <1>1, <1>2, <1>3, <1>4, <1>5 DEF Next

LEMMA RemovedStart == ASSUME ConstantsAssumption, Init PROVE RemovedInv
<1>1. load # "done"
  BY DEF Init
<1>. QED  BY <1>1, ShapeOfStart DEF RemovedInv

\* Once the list is loaded a favourite leaves the server only when a tap took it
\* off the list (remote_favorites_repository.dart, save).
THEOREM RemovedOnly ==
  ASSUME ConstantsAssumption, EarlyTaps = FALSE
  PROVE  Spec => OnlyRemovedDisappear
<1>1. Init => RemovedInv
  BY RemovedStart
<1>2. RemovedInv /\ [Next]_vars => RemovedInv'
  BY RemovedKept
<1>3. RemovedInv /\ [Next]_vars => [OnlyRemovedDisappears]_vars
  BY RemovedStep
<1>. QED  BY <1>1, <1>2, <1>3, PTL DEF Spec, OnlyRemovedDisappear

-----------------------------------------------------------------------------
\* The races a save under way has still to move.
Outstanding(s) ==
    {saves[s].todo[i][1] : i \in (IF saves[s].executed THEN 2 ELSE 1)..Len(saves[s].todo)}

\* A save under way, done with every other race of what it saves.
UnderWay(s) ==
    /\ ~Free(s)
    /\ pending = Absent => saves[s].wanted = shown
    /\ \A r \in Races : r \in Outstanding(s) \/ (r \in favorites <=> r \in saves[s].wanted)

\* Without failures and overlaps the repository knows what the server has, but
\* for the one save under way.
CalmInv ==
    /\ FavoriteShape
    /\ load = "read" => snapshot = favorites
    /\ \A s, t \in Slots : Free(s) \/ Free(t) \/ s = t
    /\ load = "done" =>
         \/ /\ \A s \in Slots : Free(s)
            /\ knownIds = favorites /\ (pending = Absent => shown = favorites)
         \/ \E s \in Slots : UnderWay(s)

LEMMA CalmOnLoad ==
  ASSUME ConstantsAssumption, CalmInv, FavoriteShape',
         ReadFavorites \/ Loaded \/ LoadFails \/ Rebuild
  PROVE  CalmInv'
<1>1. Unloaded /\ load # "done" /\ (load = "read" => snapshot = favorites)
  BY DEF CalmInv, FavoriteShape, FavoriteTypes, ReadFavorites, Loaded, LoadFails, Rebuild
<1>2. saves' = saves /\ \A s \in Slots : Free(s)'
  BY <1>1 DEF ReadFavorites, Loaded, LoadFails, Rebuild, Unloaded, Free
<1>3. CASE Loaded
  BY <1>1, <1>2, <1>3 DEF Loaded, CalmInv, Unloaded
<1>4. CASE ReadFavorites \/ LoadFails \/ Rebuild
  BY <1>1, <1>2, <1>4 DEF ReadFavorites, LoadFails, Rebuild, CalmInv
<1>. QED  BY <1>3, <1>4

LEMMA CalmOnTap ==
  ASSUME ConstantsAssumption, EarlyTaps = FALSE, CalmInv, FavoriteShape',
         ClearAll \/ \E race \in Races : Tap(race)
  PROVE  CalmInv'
<1>1. /\ load = "done" /\ load' = "done" /\ UNCHANGED <<knownIds, saves, favorites>>
      /\ pending' = shown' /\ TypeOK
  BY DEF ClearAll, Tap, CalmInv, FavoriteShape, FavoriteTypes
<1>2. pending' # Absent
  BY <1>1 DEF FavoriteShape, FavoriteTypes
<1>3. \A s \in Slots : (Free(s)' <=> Free(s)) /\ (UnderWay(s) => UnderWay(s)')
  BY <1>1, <1>2 DEF Free, UnderWay, Outstanding
<1>. QED  BY <1>1, <1>2, <1>3 DEF CalmInv

LEMMA CalmOnFlush ==
  ASSUME ConstantsAssumption, Overlaps = FALSE, CalmInv, FavoriteShape', NEW s \in Slots,
         FlushPendingSave(s)
  PROVE  CalmInv'
<1>1. /\ load = "done" /\ load' = "done" /\ Known = knownIds /\ TypeOK
      /\ UNCHANGED <<shown, favorites>> /\ pending' = Absent
      /\ \A t \in Slots : Free(t)
      /\ shown \in SUBSET Races /\ Known \in SUBSET Races
  BY ShownStarted DEF FlushPendingSave, CalmInv, FavoriteShape, FavoriteTypes
<1>2. knownIds = favorites
  BY <1>1 DEF CalmInv, UnderWay
<1>3. CASE /\ saves' = saves /\ knownIds' = shown
           /\ \A r \in Races : r \in shown <=> r \in Known
  <2>1. shown = favorites
    BY <1>1, <1>2, <1>3
  <2>. QED  BY <1>1, <1>3, <2>1 DEF CalmInv, Free
<1>4. ASSUME NEW new \in Save, new.wanted = shown, ~new.executed,
             saves' = [saves EXCEPT ![s] = new],
             \A r \in Races : (r \in shown <=> r \in Known)
                              \/ \E i \in 1..Len(new.todo) : new.todo[i][1] = r
      PROVE  CalmInv'
  <2>1. saves'[s] = new /\ \A t \in Slots \ {s} : saves'[t] = saves[t] /\ Free(t)'
    <3>1. saves'[s] = new /\ \A t \in Slots \ {s} : saves'[t] = saves[t]
      BY <1>1, <1>4 DEF TypeOK
    <3>2. \A t \in Slots \ {s} : saves[t] = Absent
      BY <1>1 DEF Free
    <3>3. \A t \in Slots \ {s} : saves'[t] = Absent
      BY <3>1, <3>2
    <3>. QED  BY <3>1, <3>3 DEF Free
  <2>2. new # Absent
    BY <1>4 DEF ConstantsAssumption
  <2>3. UnderWay(s)'
    <3>1. Outstanding(s)' = {new.todo[i][1] : i \in 1..Len(new.todo)}
      BY <1>4, <2>1 DEF Outstanding
    <3>2. \A r \in Races : r \in Outstanding(s)' \/ (r \in favorites' <=> r \in new.wanted)
      BY <1>1, <1>2, <1>4, <3>1
    <3>. QED  BY <1>1, <1>4, <2>1, <2>2, <3>2 DEF UnderWay, Free
  <2>. QED  BY <1>1, <2>1, <2>3 DEF CalmInv
<1>. QED  BY <1>3, <1>4, ShownStarted DEF CalmInv

LEMMA CalmOnRequest ==
  ASSUME ConstantsAssumption, CalmInv, FavoriteShape', NEW s \in Slots,
         Execute(s) \/ Answered(s)
  PROVE  CalmInv'
<1>1. /\ load = "done" /\ load' = "done" /\ TypeOK /\ ~Free(s) /\ UnderWay(s)
      /\ UNCHANGED <<shown, pending>> /\ saves \in [Slots -> Save \cup {Absent}]
      /\ \A t \in Slots \ {s} : Free(t)
  <2>1. /\ load = "done" /\ load' = "done" /\ TypeOK /\ ~Free(s)
        /\ UNCHANGED <<shown, pending>>
    BY DEF Execute, Answered, client, CalmInv, FavoriteShape, FavoriteTypes, Unloaded
  <2>. QED  BY <2>1 DEF CalmInv, UnderWay, TypeOK
<1>. DEFINE old == saves[s]
<1>2. /\ old \in Save /\ old.todo \in Seq(Races \X BOOLEAN) /\ Len(old.todo) \in Nat
      /\ old.todo # << >> /\ old.wanted \in SUBSET Races /\ old.executed \in BOOLEAN
      /\ \A i \in 1..Len(old.todo) : old.todo[i][2] <=> old.todo[i][1] \in old.wanted
      /\ favorites \in SUBSET Races
  BY <1>1, SaveParts DEF CalmInv, FavoriteShape, FavoriteTypes, Requesting, TypeOK
<1>3. CASE Execute(s)
  <2>1. PICK new \in Save : new = [old EXCEPT !.executed = TRUE]
    BY <1>2 DEF Save
  <2>2. /\ saves' = [saves EXCEPT ![s] = new] /\ new.executed
        /\ new.todo = old.todo /\ new.wanted = old.wanted /\ ~old.executed
    BY <1>1, <1>2, <1>3, <2>1 DEF Execute, Save
  <2>3. saves'[s] = new /\ \A t \in Slots \ {s} : saves'[t] = saves[t] /\ Free(t)'
    <3>1. saves'[s] = new /\ \A t \in Slots \ {s} : saves'[t] = saves[t]
      BY <1>1, <2>2
    <3>2. \A t \in Slots \ {s} : saves[t] = Absent
      BY <1>1 DEF Free
    <3>3. \A t \in Slots \ {s} : saves'[t] = Absent
      BY <3>1, <3>2
    <3>. QED  BY <3>1, <3>3 DEF Free
  <2>4. ~Free(s)'
    BY <2>1, <2>3 DEF ConstantsAssumption, Free
  <2>5. /\ Outstanding(s)' = {old.todo[i][1] : i \in 2..Len(old.todo)}
        /\ Outstanding(s) = {old.todo[i][1] : i \in 1..Len(old.todo)}
    BY <2>2, <2>3 DEF Outstanding
  <2>. DEFINE first == old.todo[1]
  <2>6. favorites' = IF first[2] THEN favorites \cup {first[1]} ELSE favorites \ {first[1]}
    BY <1>2, <1>3 DEF Execute
  <2>7. first[2] <=> first[1] \in old.wanted
    BY <1>2
  <2>8. Outstanding(s) \subseteq Outstanding(s)' \cup {first[1]}
    <3>. HIDE DEF old
    <3>. QED  BY <1>2, <2>5
  <2>9. \A r \in Races : r \in Outstanding(s) \/ (r \in favorites <=> r \in old.wanted)
    BY <1>1 DEF UnderWay
  <2>. HIDE DEF first
  <2>10. \A r \in Races : r \in Outstanding(s)' \/ (r \in favorites' <=> r \in old.wanted)
    BY <2>6, <2>7, <2>8, <2>9
  <2>11. UnderWay(s)'
    BY <1>1, <2>2, <2>3, <2>4, <2>10 DEF UnderWay
  <2>. QED  BY <1>1, <2>3, <2>11 DEF CalmInv
<1>4. CASE Answered(s) /\ Len(old.todo) > 1
  <2>1. PICK rest \in Seq(Races \X BOOLEAN) :
            /\ rest = Tail(old.todo) /\ Len(rest) = Len(old.todo) - 1
            /\ \A i \in 1..Len(rest) :
                   i + 1 \in 1..Len(old.todo) /\ rest[i] = old.todo[i + 1]
    <3>. HIDE DEF old
    <3>. QED  BY <1>2, <1>4, Rest, Zenon
  <2>2. PICK new \in Save : new = [old EXCEPT !.todo = rest, !.executed = FALSE]
    BY <1>2 DEF Save
  <2>3. new.todo = rest /\ new.wanted = old.wanted /\ ~new.executed
    BY <1>2, <2>2 DEF Save
  <2>4. saves' = [saves EXCEPT ![s] = new] /\ favorites' = favorites /\ old.executed
    BY <1>1, <1>2, <1>4, <2>1, <2>2 DEF Answered, Save
  <2>5. saves'[s] = new /\ \A t \in Slots \ {s} : saves'[t] = saves[t] /\ Free(t)'
    <3>1. saves'[s] = new /\ \A t \in Slots \ {s} : saves'[t] = saves[t]
      BY <1>1, <2>4
    <3>2. \A t \in Slots \ {s} : saves[t] = Absent
      BY <1>1 DEF Free
    <3>3. \A t \in Slots \ {s} : saves'[t] = Absent
      BY <3>1, <3>2
    <3>. QED  BY <3>1, <3>3 DEF Free
  <2>6. ~Free(s)'
    BY <2>2, <2>5 DEF ConstantsAssumption, Free
  <2>7. /\ Outstanding(s)' = {rest[i][1] : i \in 1..Len(rest)}
        /\ Outstanding(s) = {old.todo[i][1] : i \in 2..Len(old.todo)}
    BY <2>3, <2>4, <2>5 DEF Outstanding
  <2>8. Outstanding(s) \subseteq Outstanding(s)'
    <3>. HIDE DEF old
    <3>1. ASSUME NEW i \in 2..Len(old.todo) PROVE old.todo[i][1] \in Outstanding(s)'
      <4>1. i - 1 \in 1..Len(rest) /\ rest[i - 1] = old.todo[i]
        BY <1>2, <2>1
      <4>. QED  BY <2>7, <4>1
    <3>. QED  BY <2>7, <3>1
  <2>9. UnderWay(s)'
    BY <1>1, <2>3, <2>4, <2>5, <2>6, <2>8 DEF UnderWay
  <2>. QED  BY <1>1, <2>5, <2>9 DEF CalmInv
<1>5. CASE Answered(s) /\ ~ (Len(old.todo) > 1)
  <2>1. /\ saves' = [saves EXCEPT ![s] = Absent] /\ knownIds' = old.wanted
        /\ favorites' = favorites /\ old.executed
    BY <1>5 DEF Answered, KnownAfter
  <2>2. \A t \in Slots : Free(t)'
    BY <1>1, <2>1 DEF Free
  <2>3. Outstanding(s) = {}
    <3>1. 2..Len(old.todo) = {}
      <4>. HIDE DEF old
      <4>. QED  BY <1>2, <1>5
    <3>. QED  BY <2>1, <3>1 DEF Outstanding
  <2>4. favorites = old.wanted
    BY <1>1, <1>2, <2>3 DEF UnderWay
  <2>. QED  BY <1>1, <2>1, <2>2, <2>4 DEF CalmInv, UnderWay
<1>. QED  BY <1>3, <1>4, <1>5

LEMMA CalmKept ==
  ASSUME ConstantsAssumption, EarlyTaps = FALSE, Overlaps = FALSE, MaxFailures = 0,
         CalmInv, [Next]_vars
  PROVE  CalmInv'
<1>1. FavoriteShape'
  BY ShapeKept DEF CalmInv
<1>2. CASE UNCHANGED vars
  BY <1>1, <1>2 DEF vars, client, history, CalmInv, Free, UnderWay, Outstanding
<1>3. ASSUME NEW s \in Slots, FailRequest(s) PROVE FALSE
  BY <1>3 DEF CalmInv, FavoriteShape, FavoriteTypes, TypeOK, FailRequest
<1>. QED
  BY <1>1, <1>2, <1>3, CalmOnLoad, CalmOnTap, CalmOnFlush, CalmOnRequest DEF Next

LEMMA CalmStart == ASSUME ConstantsAssumption, Init PROVE CalmInv
BY ShapeOfStart DEF CalmInv, Init, Free

LEMMA CalmFollows == ASSUME CalmInv PROVE SettledIsSaved
BY DEF CalmInv, SettledIsSaved, UnderWay

\* While no request fails and no save overlaps another, what the list shows once
\* all is quiet is what the server has (favorite_ids_provider.dart).
THEOREM SettledSaved ==
  ASSUME ConstantsAssumption, EarlyTaps = FALSE, Overlaps = FALSE, MaxFailures = 0
  PROVE  Spec => []SettledIsSaved
<1>1. Init => CalmInv
  BY CalmStart
<1>2. CalmInv /\ [Next]_vars => CalmInv'
  BY CalmKept
<1>3. CalmInv => SettledIsSaved
  BY CalmFollows
<1>. QED  BY <1>1, <1>2, <1>3, PTL DEF Spec
=================================================================================
