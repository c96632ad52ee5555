---- MODULE MCRaceUpsert ----
EXTENDS RaceUpsert, TLC
CONSTANTS r1, r2, r3, r4, p1, p2, c1, c2, y1, y2

SyncSymmetry == Permutations(Syncs)

\* Three races of one place and one of another.
PlaceOfRaces == (r1 :> p1) @@ (r2 :> p1) @@ (r3 :> p1) @@ (r4 :> p2)
TwoPlaces == [r \in Races |-> PlaceOfRaces[r]]

\* All races; two cancelled and another car in r4; one race of p1; r4 without
\* its list of players.
List(R, cars) == [listed |-> R, cars |-> [r \in Races |-> IF r = r4 THEN cars ELSE {}]]
RaceProgrammes ==
    {List(Races, {c1}), List({r1, r4}, {c2}), List({r2}, {}), List({r4}, {})}
====
