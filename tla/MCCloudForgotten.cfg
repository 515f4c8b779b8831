\* A restart between a verified delete and the save of the index.
SPECIFICATION CloudSpec
CONSTANTS
    None = None
    ph1 = ph1
    d1 = d1
    p1 = p1
    Photo = {ph1}
    Digest = {d1, d2}
    Path = {p1}
    Id = {i1}
    Syncer = {s1}
    Cleaner = {c1}
    Cap = 1
    MaxIntents = 2
    Content <- ContentDef
    FileOf <- FileOfDef
VIEW RestartView
SYMMETRY Symmetry
INVARIANT RemovedStaysIndexed
