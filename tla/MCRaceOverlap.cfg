SPECIFICATION Spec
CONSTANTS
    r1 = r1
    r2 = r2
    r3 = r3
    r4 = r4
    p1 = p1
    p2 = p2
    c1 = c1
    c2 = c2
    y1 = y1
    y2 = y2
    Races = {r1, r2, r3, r4}
    PlaceOf <- TwoPlaces
    Mechanical = {r4}
    OffDay = {}
    Cars = {c1, c2}
    Programmes <- RaceProgrammes
    Syncs = {y1, y2}
    ChunkSize = 2
    PlayerChunk = 1
    PruneChunk = 1
    MaxChanges = 2
    MaxTroubles = 1
SYMMETRY SyncSymmetry
INVARIANTS TypeOK HalvesArePruned CleanSyncMirrors
PROPERTY PrunesOnlyMissed
